---- MODULE Spec2Model ----
(***************************************************************************)
(* A model of PawQL (ahmatfauzy/pawql-orm): the query builder and its SQL  *)
(* renderer, the transaction primitive of the drivers, the migration       *)
(* runner and the logger hook.                                             *)
(*                                                                         *)
(* SQL text is a sequence of pieces.  A piece is either one character (the *)
(* characters of identifiers, digits, "$", spaces, punctuation) or one     *)
(* whole SQL word ("SELECT", "WHERE", "IS", ...).  The concatenation of    *)
(* the pieces is the string the code builds.  A placeholder $12 is the     *)
(* pieces "$","1","2", so the regular expressions of the renderer are      *)
(* modelled on the characters they read.                                   *)
(***************************************************************************)
EXTENDS Integers, Sequences, FiniteSets, TLC

VARIABLES
    \* the query builder
    b,          \* the QueryBuilder being chained (its private fields)
    ret,        \* what the last call on the builder returned or threw
    calls,      \* number of chain calls made so far
    \* transactions
    driver,     \* the adapter of the handle: "pg" or "dummy"
    txlog,      \* the statements the adapter has sent (pg) or recorded (dummy)
    frames,     \* the transaction() calls in progress, outermost first
    done,       \* the transaction() calls that have settled
    pgdb,       \* the PostgreSQL session of the client and the stored rows
    pool,       \* the pool: clients checked out and clients released
    \* migrations
    files,      \* the file names in the migration directory
    migdb,      \* the tracking table
    proc,       \* each process's Migrator call in progress
    hist,       \* the Migrator calls that have settled, in order
    tailAdds,   \* every file so far was added at the end of the listing
    \* the logger hook
    hasLogger,  \* the handle was constructed with options.logger
    pending,    \* the query awaiting the adapter, if any
    execs,      \* the queries that have settled, in order
    now,        \* performance.now()
    \* the handle's options and the terminal calls
    opts,       \* the options the handle was created with
    scope,      \* the soft-delete scope of the builder
    chain,      \* the methods called on the builder so far, in order
    sent,       \* the statements the adapter has received, in order
    schema      \* the tables the handle was created with, in order

builderVars == <<b, ret, calls>>

txVars == <<driver, txlog, frames, done, pgdb, pool>>

migVars == <<files, migdb, proc, hist, tailAdds>>

logVars == <<hasLogger, pending, execs, now>>

handleVars == <<opts, scope, chain, sent, schema>>

vars == <<builderVars, txVars, migVars, logVars, handleVars>>

-----------------------------------------------------------------------------
(* Strings and numbers *)

Digit == <<"0", "1", "2", "3", "4", "5", "6", "7", "8", "9">>

IsDigit(c) == \E i \in 1..10 : Digit[i] = c

DigitVal(c) == (CHOOSE i \in 1..10 : Digit[i] = c) - 1

\* `${n}`: the decimal digits of a non-negative number
RECURSIVE NumStr(_)
NumStr(n) ==
    IF n < 10 THEN <<Digit[n + 1]>>
    ELSE NumStr(n \div 10) \o <<Digit[(n % 10) + 1]>>

\* Number(num) of the digits s[i..j]
RECURSIVE NumVal(_, _, _)
NumVal(s, i, j) ==
    IF j < i THEN 0 ELSE NumVal(s, i, j - 1) * 10 + DigitVal(s[j])

\* the index of the last digit of the longest run of digits starting at i
RECURSIVE DigitsEnd(_, _)
DigitsEnd(s, i) ==
    IF i <= Len(s) /\ IsDigit(s[i]) THEN DigitsEnd(s, i + 1) ELSE i - 1

\* /\$\d+/ matches at position i
ParamAt(s, i) ==
    /\ i < Len(s)
    /\ s[i] = "$"
    /\ IsDigit(s[i + 1])

\* `$${n}`
Placeholder(n) == <<"$">> \o NumStr(n)

Includes(s, c) == \E i \in 1..Len(s) : s[i] = c

\* parts.join(sep)
RECURSIVE Join(_, _)
Join(parts, sep) ==
    IF Len(parts) = 0 THEN <<>>
    ELSE IF Len(parts) = 1 THEN parts[1]
    ELSE parts[1] \o sep \o Join(Tail(parts), sep)

\* identifier.indexOf(c), 1-based, for a text that includes c
IndexOf(s, c) == CHOOSE k \in 1..Len(s) : s[k] = c /\ \A m \in 1..(k - 1) : s[m] # c

\* identifier.split(".")
RECURSIVE Split(_, _)
Split(s, c) ==
    IF ~Includes(s, c) THEN <<s>>
    ELSE <<SubSeq(s, 1, IndexOf(s, c) - 1)>>
             \o Split(SubSeq(s, IndexOf(s, c) + 1, Len(s)), c)

\* the position of the first match of /\$\d+/ at or after i, 0 when none
NextParam(s, i) ==
    IF \E k \in i..Len(s) : ParamAt(s, k)
    THEN CHOOSE k \in i..Len(s) : ParamAt(s, k) /\ \A m \in i..(k - 1) : ~ParamAt(s, m)
    ELSE 0

\* the number (\d+) of the match at position k
ParamNum(s, k) == NumVal(s, k + 1, DigitsEnd(s, k + 1))

\* the positions of all the matches of /\$(\d+)/g
ParamPositions(s) == {k \in 1..Len(s) : ParamAt(s, k)}

\* the indices of the $N tokens of a text, left to right
ParamIndices(s) ==
    [n \in 1..Cardinality(ParamPositions(s)) |->
        ParamNum(s, CHOOSE k \in ParamPositions(s) :
                        Cardinality({m \in ParamPositions(s) : m <= k}) = n)]

-----------------------------------------------------------------------------
(* Values of the builder's IR *)

\* A value as the builder sees it: null, a scalar, an array, a SubqueryDef
\* (its builder in .sub, its alias in .l) or an operator object (.ops, a
\* sequence of [op, arg]).
VNull == [t |-> "null", v |-> "", l |-> <<>>, sub |-> <<>>, ops |-> <<>>]

VScalar(x) == [t |-> "scalar", v |-> x, l |-> <<>>, sub |-> <<>>, ops |-> <<>>]

VList(xs) == [t |-> "list", v |-> "", l |-> xs, sub |-> <<>>, ops |-> <<>>]

VOps(ops) == [t |-> "ops", v |-> "", l |-> <<>>, sub |-> <<>>, ops |-> ops]

\* subquery(builder) and subquery(builder).as(alias)
subquery(builder, alias) ==
    [t |-> "subdef", v |-> "", l |-> alias, sub |-> builder, ops |-> <<>>]

\* the value as it is pushed on the parameter vector
ParamOf(val) ==
    CASE val.t = "scalar" -> val.v
      [] val.t = "null"   -> "null"
      [] OTHER            -> "object"

\* new QueryBuilder(table, adapter)
NewBuilder(table) ==
    [ table        |-> table,
      operation    |-> "SELECT",
      data         |-> [kind |-> "null", rows |-> <<>>],
      select       |-> <<>>,
      where        |-> <<>>,
      joins        |-> <<>>,
      orderBy      |-> <<>>,
      groupBy      |-> <<>>,
      having       |-> <<>>,
      onConflict   |-> <<>>,
      fromSubquery |-> <<>>,
      limit        |-> <<>>,
      offset       |-> <<>>,
      returning    |-> [t |-> "false", cols |-> <<>>] ]

-----------------------------------------------------------------------------
(* Chain methods *)

insert(q, data) ==
    [q EXCEPT !.operation = "INSERT", !.data = data,
              !.returning = [t |-> "true", cols |-> <<>>]]

\* an update() that takes the data and leaves the operation as it was
updateDataOnly(q, data) ==
    [q EXCEPT !.data = data, !.returning = [t |-> "true", cols |-> <<>>]]

update(q, data) ==
    [q EXCEPT !.operation = "UPDATE", !.data = data,
              !.returning = [t |-> "true", cols |-> <<>>]]

delete(q) ==
    [q EXCEPT !.operation = "DELETE",
              !.returning = [t |-> "true", cols |-> <<>>]]

JoinClause(type, table, col1, op, col2) ==
    [type |-> type, table |-> table, col1 |-> col1, op |-> op, col2 |-> col2]

innerJoin(q, table, col1, op, col2) ==
    [q EXCEPT !.joins = Append(@, JoinClause("INNER", table, col1, op, col2))]

leftJoin(q, table, col1, op, col2) ==
    [q EXCEPT !.joins = Append(@, JoinClause("LEFT", table, col1, op, col2))]

rightJoin(q, table, col1, op, col2) ==
    [q EXCEPT !.joins = Append(@, JoinClause("RIGHT", table, col1, op, col2))]

fullJoin(q, table, col1, op, col2) ==
    [q EXCEPT !.joins = Append(@, JoinClause("FULL", table, col1, op, col2))]

select(q, columns) == [q EXCEPT !.select = columns]

WhereClause(type, column, operator, value) ==
    [type |-> type, column |-> column, operator |-> operator, value |-> value]

\* the keys _addWhere looks for in an operator object, in the order it
\* looks for them, with the SQL operator each produces
OperatorKeys ==
    << [key |-> "in",       operator |-> "IN"],
       [key |-> "notIn",    operator |-> "NOT IN"],
       [key |-> "like",     operator |-> "LIKE"],
       [key |-> "ilike",    operator |-> "ILIKE"],
       [key |-> "gt",       operator |-> ">"],
       [key |-> "lt",       operator |-> "<"],
       [key |-> "gte",      operator |-> ">="],
       [key |-> "lte",      operator |-> "<="],
       [key |-> "not",      operator |-> "!="],
       [key |-> "between",  operator |-> "BETWEEN"],
       [key |-> "subquery", operator |-> "IN"] >>

\* "key" in ops
HasKey(ops, key) == \E i \in 1..Len(ops) : ops[i].op = key

\* ops[key]
KeyArg(ops, key) == ops[CHOOSE i \in 1..Len(ops) : ops[i].op = key].arg

\* the predicates one operator object produces
RECURSIVE OperatorClauses(_, _, _, _)
OperatorClauses(type, column, ops, k) ==
    IF k > Len(OperatorKeys) THEN <<>>
    ELSE (IF HasKey(ops, OperatorKeys[k].key)
          THEN <<WhereClause(type, column, OperatorKeys[k].operator,
                             KeyArg(ops, OperatorKeys[k].key))>>
          ELSE <<>>)
         \o OperatorClauses(type, column, ops, k + 1)

\* an expansion without the test for null: null is compared with "="
EntryClausesNullEquals(type, entry) ==
    CASE entry.val.t = "subdef" ->
            <<WhereClause(type, entry.key, "IN", entry.val)>>
      [] entry.val.t \in {"ops", "list"} ->
            OperatorClauses(type, entry.key, entry.val.ops, 1)
      [] OTHER ->
            <<WhereClause(type, entry.key, "=", entry.val)>>

\* the predicates one entry [key, val] of a condition object produces
EntryClauses(type, entry) ==
    CASE entry.val.t = "null" ->
            <<WhereClause(type, entry.key, "IS", VNull)>>
      [] entry.val.t = "subdef" ->
            <<WhereClause(type, entry.key, "IN", entry.val)>>
      [] entry.val.t \in {"ops", "list"} ->
            \* an array is an object too: none of the keys is in it
            OperatorClauses(type, entry.key, entry.val.ops, 1)
      [] OTHER ->
            <<WhereClause(type, entry.key, "=", entry.val)>>

RECURSIVE AddWhereFrom(_, _, _)
AddWhereFrom(type, conditions, i) ==
    IF i > Len(conditions) THEN <<>>
    ELSE EntryClauses(type, conditions[i]) \o AddWhereFrom(type, conditions, i + 1)

_addWhere(q, type, conditions) ==
    [q EXCEPT !.where = @ \o AddWhereFrom(type, conditions, 1)]

where(q, conditions) == _addWhere(q, "AND", conditions)

orWhere(q, conditions) == _addWhere(q, "OR", conditions)

orderBy(q, column, direction) ==
    [q EXCEPT !.orderBy = Append(@, [column |-> column, direction |-> direction])]

groupBy(q, columns) == [q EXCEPT !.groupBy = @ \o columns]

having(q, condition, params) ==
    [q EXCEPT !.having = Append(@, [raw |-> condition, values |-> params])]

\* onConflict(columns).doUpdate(data)
doUpdate(q, columns, data) ==
    [q EXCEPT !.onConflict =
        <<[columns |-> columns, action |-> "DO UPDATE", updateData |-> data]>>]

\* onConflict(columns).doNothing()
doNothing(q, columns) ==
    [q EXCEPT !.onConflict =
        <<[columns |-> columns, action |-> "DO NOTHING", updateData |-> <<>>]>>]

from(q, sub) == [q EXCEPT !.fromSubquery = <<sub>>]

limit(q, n) == [q EXCEPT !.limit = <<n>>]

offset(q, n) == [q EXCEPT !.offset = <<n>>]

\* returning(false) is args = <<"false">>; returning(c1, ...) is the columns
returning(q, args) ==
    IF Len(args) > 0 /\ args[1] = "false"
    THEN [q EXCEPT !.returning = [t |-> "false", cols |-> <<>>]]
    ELSE [q EXCEPT !.returning = [t |-> "cols", cols |-> args]]

-----------------------------------------------------------------------------
(* The renderer *)

Ok(sql, values) == [ok |-> TRUE, err |-> "", sql |-> sql, values |-> values]

Throw(err) == [ok |-> FALSE, err |-> err, sql |-> <<>>, values |-> <<>>]

QuotePart(part) == <<"\"">> \o part \o <<"\"">>

RECURSIVE QuoteParts(_)
QuoteParts(parts) ==
    IF Len(parts) = 0 THEN <<>>
    ELSE <<QuotePart(parts[1])>> \o QuoteParts(Tail(parts))

\* a variant that quotes a dotted reference as one name
_quoteWhole(identifier) ==
    IF identifier = <<"*">> THEN identifier
    ELSE IF \/ Includes(identifier, "(")
            \/ Includes(identifier, " ")
            \/ (Len(identifier) > 0 /\ identifier[1] = "\"")
         THEN identifier
    ELSE QuotePart(identifier)

_quote(identifier) ==
    IF identifier = <<"*">> THEN identifier
    ELSE IF \/ Includes(identifier, "(")
            \/ Includes(identifier, " ")
            \/ (Len(identifier) > 0 /\ identifier[1] = "\"")
         THEN identifier
    ELSE IF Includes(identifier, ".")
         THEN Join(QuoteParts(Split(identifier, ".")), <<".">>)
    ELSE QuotePart(identifier)

RECURSIVE QuoteAll(_)
QuoteAll(ids) ==
    IF Len(ids) = 0 THEN <<>>
    ELSE <<_quote(ids[1])>> \o QuoteAll(Tail(ids))

\* subSql.replace(/\$(\d+)/g, (_, num) => `$${Number(num) + offset}`)
RECURSIVE ReplaceAllParams(_, _, _)

\* the text from i on, the next match being at k (0: none)
ReplaceAllAt(s, i, k, off) ==
    IF k = 0 THEN SubSeq(s, i, Len(s))
    ELSE SubSeq(s, i, k - 1) \o Placeholder(ParamNum(s, k) + off)
             \o ReplaceAllParams(s, DigitsEnd(s, k + 1) + 1, off)

ReplaceAllParams(s, i, off) == ReplaceAllAt(s, i, NextParam(s, i), off)

\* the text with its first match, at k (0: none), replaced by `$${n}`
ReplaceAt(s, k, n) ==
    IF k = 0 THEN s
    ELSE SubSeq(s, 1, k - 1) \o Placeholder(n)
             \o SubSeq(s, DigitsEnd(s, k + 1) + 1, Len(s))

\* cond.replace(/\$\d+/, `$${n}`): the first match only.  The regular
\* expression has no capture group, so "$n" in the replacement is literal.
ReplaceFirstParam(s, n) == ReplaceAt(s, NextParam(s, 1), n)

\* The renderer's two locals, `sql` and `values`, are threaded through its
\* steps as one record st; st.ok is FALSE once a step has thrown.

\* sql += text
Emit(st, text) == IF st.ok THEN [st EXCEPT !.sql = @ \o text] ELSE st

\* values.push(v); sql += `$${values.length}`
PushParam(st, v) ==
    IF st.ok
    THEN [st EXCEPT !.values = Append(@, v),
                    !.sql = @ \o Placeholder(Len(st.values) + 1)]
    ELSE st

\* outerValues.push(...subValues); the sub-SQL with every $N moved up by the
\* number of values the outer query had
_rebaseSubqueryParams(st, subSql, subValues) ==
    [st EXCEPT !.sql = @ \o ReplaceAllParams(subSql, 1, Len(st.values)),
               !.values = @ \o subValues]

\* `(${rebased})...` for the result of the inner builder's toSQL(), which
\* may have thrown
Embed(st, inner, close) ==
    IF ~inner.ok THEN inner
    ELSE Emit(_rebaseSubqueryParams(st, inner.sql, inner.values), close)

RECURSIVE ToSQL(_)

\* xs.map(v => { values.push(v); return `$${values.length}` }).join(", ")
RECURSIVE PushList(_, _, _)
PushList(st, xs, i) ==
    IF i > Len(xs) THEN st
    ELSE PushList(PushParam(Emit(st, IF i = 1 THEN <<>> ELSE <<",", " ">>), xs[i]),
                  xs, i + 1)

\* a BETWEEN that takes a list of any length but the empty one
ConditionOfAnyList(st, col, op, val) ==
    CASE op \in {"IN", "NOT IN"} /\ val.t = "subdef" ->
            Embed(Emit(st, col \o <<" ", op, " ", "(">>), ToSQL(val.sub), <<")">>)
      [] op \in {"EXISTS", "NOT EXISTS"} ->
            Embed(Emit(st, <<op, " ", "(">>), ToSQL(val.sub), <<")">>)
      [] op \in {"IN", "NOT IN"} /\ val.t # "subdef" ->
            IF val.t = "list" /\ Len(val.l) > 0
            THEN Emit(PushList(Emit(st, col \o <<" ", op, " ", "(">>), val.l, 1), <<")">>)
            ELSE Emit(st, IF op = "IN" THEN <<"1=0">> ELSE <<"1=1">>)
      [] op \in {"IS", "IS NOT"} ->
            Emit(st, col \o <<" ", op, " ">>
                         \o (IF val.t = "null" THEN <<"NULL">> ELSE <<ParamOf(val)>>))
      [] op = "BETWEEN" ->
            IF val.t = "list" /\ Len(val.l) >= 1
            THEN PushParam(Emit(PushParam(Emit(st, col \o <<" ", "BETWEEN", " ">>),
                                          val.l[1]),
                                <<" ", "AND", " ">>),
                           val.l[Len(val.l)])
            ELSE Throw("BETWEEN requires an array of exactly 2 values")
      [] OTHER ->
            PushParam(Emit(st, col \o <<" ", op, " ">>), ParamOf(val))

\* the condition of one predicate on column text col
ConditionOf(st, col, op, val) ==
    CASE op \in {"IN", "NOT IN"} /\ val.t = "subdef" ->
            Embed(Emit(st, col \o <<" ", op, " ", "(">>), ToSQL(val.sub), <<")">>)
      [] op \in {"EXISTS", "NOT EXISTS"} ->
            Embed(Emit(st, <<op, " ", "(">>), ToSQL(val.sub), <<")">>)
      [] op \in {"IN", "NOT IN"} /\ val.t # "subdef" ->
            IF val.t = "list" /\ Len(val.l) > 0
            THEN Emit(PushList(Emit(st, col \o <<" ", op, " ", "(">>), val.l, 1), <<")">>)
            ELSE Emit(st, IF op = "IN" THEN <<"1=0">> ELSE <<"1=1">>)
      [] op \in {"IS", "IS NOT"} ->
            Emit(st, col \o <<" ", op, " ">>
                         \o (IF val.t = "null" THEN <<"NULL">> ELSE <<ParamOf(val)>>))
      [] op = "BETWEEN" ->
            IF val.t = "list" /\ Len(val.l) = 2
            THEN PushParam(Emit(PushParam(Emit(st, col \o <<" ", "BETWEEN", " ">>),
                                          val.l[1]),
                                <<" ", "AND", " ">>),
                           val.l[2])
            ELSE Throw("BETWEEN requires an array of exactly 2 values")
      [] OTHER ->
            PushParam(Emit(st, col \o <<" ", op, " ">>), ParamOf(val))

Condition(st, clause) ==
    ConditionOf(st, _quote(clause.column), clause.operator, clause.value)

\* this._where.map(...).join(" "): the clauses from index i on, each with its
\* connector except the first of the list
RECURSIVE WhereClausesFrom(_, _, _)
WhereClausesFrom(st, q, i) ==
    IF ~st.ok \/ i > Len(q.where) THEN st
    ELSE WhereClausesFrom(
             Condition(Emit(st, IF i = 1 THEN <<>> ELSE <<" ", q.where[i].type, " ">>),
                       q.where[i]),
             q, i + 1)

_buildWhere(st, q) ==
    IF ~st.ok \/ Len(q.where) = 0 THEN st
    ELSE WhereClausesFrom(Emit(st, <<" ", "WHERE", " ">>), q, 1)

JoinSQL(j) ==
    <<j.type, " ", "JOIN", " ">> \o _quote(j.table) \o <<" ", "ON", " ">>
        \o _quote(j.col1) \o <<" ", j.op, " ">> \o _quote(j.col2)

RECURSIVE JoinsFrom(_, _)
JoinsFrom(q, i) ==
    IF i > Len(q.joins) THEN <<>>
    ELSE <<JoinSQL(q.joins[i])>> \o JoinsFrom(q, i + 1)

_buildJoins(q) ==
    IF Len(q.joins) = 0 THEN <<>>
    ELSE <<" ">> \o Join(JoinsFrom(q, 1), <<" ">>)

_buildGroupBy(q) ==
    IF Len(q.groupBy) = 0 THEN <<>>
    ELSE <<" ", "GROUP BY", " ">> \o Join(QuoteAll(q.groupBy), <<",", " ">>)

\* for (const v of h.values) { values.push(v); cond = cond.replace(...) }
\* from the i-th value on, values having had n elements before the first
RECURSIVE HavingCond(_, _, _, _)
HavingCond(cond, vals, i, n) ==
    IF i > Len(vals) THEN cond
    ELSE HavingCond(ReplaceFirstParam(cond, n + i), vals, i + 1, n)

HavingPart(st, h) ==
    [st EXCEPT !.sql = @ \o HavingCond(h.raw, h.values, 1, Len(st.values)),
               !.values = @ \o h.values]

RECURSIVE HavingFrom(_, _, _)
HavingFrom(st, q, i) ==
    IF i > Len(q.having) THEN st
    ELSE HavingFrom(
             HavingPart(Emit(st, IF i = 1 THEN <<>> ELSE <<" ", "AND", " ">>),
                        q.having[i]),
             q, i + 1)

_buildHaving(st, q) ==
    IF ~st.ok \/ Len(q.having) = 0 THEN st
    ELSE HavingFrom(Emit(st, <<" ", "HAVING", " ">>), q, 1)

RECURSIVE OrderByFrom(_, _)
OrderByFrom(q, i) ==
    IF i > Len(q.orderBy) THEN <<>>
    ELSE <<_quote(q.orderBy[i].column) \o <<" ", q.orderBy[i].direction>>>>
             \o OrderByFrom(q, i + 1)

_buildOrderBy(q) ==
    IF Len(q.orderBy) = 0 THEN <<>>
    ELSE <<" ", "ORDER BY", " ">> \o Join(OrderByFrom(q, 1), <<",", " ">>)

_buildReturning(q) ==
    IF q.returning.t = "false" THEN <<>>
    ELSE IF q.returning.t = "true" THEN <<" ", "RETURNING", " ", "*">>
    ELSE IF Len(q.returning.cols) > 0
         THEN <<" ", "RETURNING", " ">> \o Join(QuoteAll(q.returning.cols), <<",", " ">>)
    ELSE <<" ", "RETURNING", " ", "*">>

\* `${quote(key)} = $${values.length}` for every entry of an object, joined
\* with ", "
RECURSIVE SetClauses(_, _, _)
SetClauses(st, row, i) ==
    IF i > Len(row) THEN st
    ELSE SetClauses(
             PushParam(Emit(st, (IF i = 1 THEN <<>> ELSE <<",", " ">>)
                                    \o _quote(row[i].k) \o <<" ", "=", " ">>),
                       row[i].v),
             row, i + 1)

_buildOnConflict(st, q) ==
    IF Len(q.onConflict) = 0 THEN st
    ELSE IF q.onConflict[1].action = "DO NOTHING"
         THEN Emit(st, <<" ", "ON CONFLICT", " ", "(">>
                           \o Join(QuoteAll(q.onConflict[1].columns), <<",", " ">>)
                           \o <<")", " ", "DO NOTHING">>)
    ELSE SetClauses(Emit(st, <<" ", "ON CONFLICT", " ", "(">>
                                 \o Join(QuoteAll(q.onConflict[1].columns), <<",", " ">>)
                                 \o <<")", " ", "DO UPDATE SET", " ">>),
                    q.onConflict[1].updateData, 1)

\* Object.keys(row)
RECURSIVE Keys(_)
Keys(row) == IF Len(row) = 0 THEN <<>> ELSE <<row[1].k>> \o Keys(Tail(row))

\* row[key]: undefined when the row has no such key
Lookup(row, key) ==
    IF \E i \in 1..Len(row) : row[i].k = key
    THEN row[CHOOSE i \in 1..Len(row) : row[i].k = key].v
    ELSE "undefined"

\* the placeholders of one row of an INSERT, the keys taken from the first
RECURSIVE RowPlaceholders(_, _, _, _)
RowPlaceholders(st, row, keys, i) ==
    IF i > Len(keys) THEN st
    ELSE RowPlaceholders(
             PushParam(Emit(st, IF i = 1 THEN <<>> ELSE <<",", " ">>),
                       Lookup(row, keys[i])),
             row, keys, i + 1)

RECURSIVE RowsPlaceholders(_, _, _, _)
RowsPlaceholders(st, rows, keys, r) ==
    IF r > Len(rows) THEN st
    ELSE RowsPlaceholders(
             Emit(RowPlaceholders(
                      Emit(st, (IF r = 1 THEN <<>> ELSE <<",", " ">>) \o <<"(">>),
                      rows[r], keys, 1),
                  <<")">>),
             rows, keys, r + 1)

\* this._select.map(c => this._quote(c)).join(", ") or "*"
Columns(q) ==
    IF Len(q.select) > 0 THEN Join(QuoteAll(q.select), <<",", " ">>) ELSE <<"*">>

\* subDef._alias || "sub"
AliasOf(subDef) == IF Len(subDef.l) > 0 THEN subDef.l ELSE <<"s", "u", "b">>

\* `SELECT ${columns} FROM ...`
SelectSource(q) ==
    IF Len(q.fromSubquery) > 0
    THEN Emit(Embed(Ok(<<"SELECT", " ">> \o Columns(q) \o <<" ", "FROM", " ", "(">>,
                       <<>>),
                    ToSQL(q.fromSubquery[1].sub),
                    <<")", " ", "AS", " ">>),
              _quote(AliasOf(q.fromSubquery[1])))
    ELSE Ok(<<"SELECT", " ">> \o Columns(q) \o <<" ", "FROM", " ">> \o _quote(q.table),
            <<>>)

LimitSQL(q) ==
    IF Len(q.limit) > 0 THEN <<" ", "LIMIT", " ">> \o NumStr(q.limit[1]) ELSE <<>>

OffsetSQL(q) ==
    IF Len(q.offset) > 0 THEN <<" ", "OFFSET", " ">> \o NumStr(q.offset[1]) ELSE <<>>

ToSQLSelect(q) ==
    Emit(_buildHaving(
             Emit(_buildWhere(Emit(SelectSource(q), _buildJoins(q)), q),
                  _buildGroupBy(q)),
             q),
         _buildOrderBy(q) \o LimitSQL(q) \o OffsetSQL(q))

ToSQLInsert(q) ==
    IF Len(q.joins) > 0 THEN Throw("INSERT does not support JOINS")
    ELSE IF q.data.kind = "null" THEN Throw("No data provided for INSERT")
    ELSE IF Len(q.data.rows) = 0 THEN Throw("Empty data array for INSERT")
    ELSE IF Len(q.data.rows[1]) = 0 THEN Throw("No columns to insert")
    ELSE Emit(_buildOnConflict(
                  RowsPlaceholders(
                      Ok(<<"INSERT INTO", " ">> \o _quote(q.table) \o <<" ", "(">>
                             \o Join(QuoteAll(Keys(q.data.rows[1])), <<",", " ">>)
                             \o <<")", " ", "VALUES", " ">>,
                         <<>>),
                      q.data.rows, Keys(q.data.rows[1]), 1),
                  q),
              _buildReturning(q))

\* an UPDATE that does not look at the joins
ToSQLUpdateWithJoins(q) ==
    IF q.data.kind = "null" THEN Throw("No data provided for UPDATE")
    ELSE IF Len(q.data.rows[1]) = 0 THEN Throw("No columns to update")
    ELSE Emit(_buildWhere(
                  SetClauses(Ok(<<"UPDATE", " ">> \o _quote(q.table) \o <<" ", "SET", " ">>,
                                <<>>),
                             q.data.rows[1], 1),
                  q),
              _buildReturning(q))

ToSQLUpdate(q) ==
    IF Len(q.joins) > 0
    THEN Throw("UPDATE does not support JOINS directly (use subqueries or raw SQL)")
    ELSE IF q.data.kind = "null" THEN Throw("No data provided for UPDATE")
    ELSE IF Len(q.data.rows[1]) = 0 THEN Throw("No columns to update")
    ELSE Emit(_buildWhere(
                  SetClauses(Ok(<<"UPDATE", " ">> \o _quote(q.table) \o <<" ", "SET", " ">>,
                                <<>>),
                             q.data.rows[1], 1),
                  q),
              _buildReturning(q))

ToSQLDelete(q) ==
    IF Len(q.joins) > 0 THEN Throw("DELETE does not support JOINS directly")
    ELSE Emit(_buildWhere(Ok(<<"DELETE FROM", " ">> \o _quote(q.table), <<>>), q),
              _buildReturning(q))

ToSQL(q) ==
    CASE q.operation = "SELECT" -> ToSQLSelect(q)
      [] q.operation = "INSERT" -> ToSQLInsert(q)
      [] q.operation = "UPDATE" -> ToSQLUpdate(q)
      [] q.operation = "DELETE" -> ToSQLDelete(q)

-----------------------------------------------------------------------------
(* The inputs of the builder's calls *)

MaxCalls == 3

TblUsers == <<"u">>

ColId == <<"i">>

ColName == <<"n">>

ColQualified == <<"u", ".", "i">>

ColAggregate == <<"C", "(", "*", ")">>

Entry(key, val) == [key |-> key, val |-> val]

OpArg(op, arg) == [op |-> op, arg |-> arg]

Field(k, v) == [k |-> k, v |-> v]

\* db.query("o").select("i").where({n: "c"})
InnerFlat ==
    where(select(NewBuilder(<<"o">>), <<ColId>>), <<Entry(ColName, VScalar("c"))>>)

\* db.query("p").where({n: "d"}).where({i: {subquery: subquery(InnerFlat)}})
InnerNested ==
    where(where(NewBuilder(<<"p">>), <<Entry(ColName, VScalar("d"))>>),
          <<Entry(ColId, VOps(<<OpArg("subquery", subquery(InnerFlat, <<>>))>>))>>)

\* db.query("r").select("i").where({n: "e", i: subquery(InnerNested)})
InnerDeep ==
    where(select(NewBuilder(<<"r">>), <<ColId>>),
          <<Entry(ColName, VScalar("e")), Entry(ColId, subquery(InnerNested, <<>>))>>)

\* 'S > $1'
HavingOne == <<"S", " ", ">", " ", "$", "1">>

\* 'S > $1 AND S < $2'
HavingTwo ==
    <<"S", " ", ">", " ", "$", "1", " ", "AND", " ", "S", " ", "<", " ", "$", "2">>

\* db.query("o").select("i").groupBy("i").having('S > $1 AND S < $2', "f", "g")
InnerHaving ==
    having(groupBy(select(NewBuilder(<<"o">>), <<ColId>>), <<ColId>>),
           HavingTwo, <<"f", "g">>)

WhereInputs ==
    { <<Entry(ColId, VScalar("x")), Entry(ColName, VNull)>>,
      <<Entry(ColQualified, VOps(<<OpArg("in", VList(<<"p", "q">>))>>))>>,
      <<Entry(ColId, VOps(<<OpArg("notIn", VList(<<>>)), OpArg("in", VList(<<>>))>>))>>,
      <<Entry(ColName, VOps(<<OpArg("between", VList(<<"lo", "hi">>))>>))>>,
      <<Entry(ColName, VOps(<<OpArg("between", VList(<<"lo">>))>>))>>,
      <<Entry(ColName, VOps(<<OpArg("lt", VScalar("hi")), OpArg("gt", VScalar("lo"))>>))>>,
      <<Entry(ColName, VOps(<<OpArg("like", VScalar("a")), OpArg("ilike", VScalar("b")),
                              OpArg("gte", VScalar("c")), OpArg("lte", VScalar("d")),
                              OpArg("not", VScalar("e"))>>))>>,
      <<Entry(ColId, VOps(<<>>))>>,
      <<Entry(ColId, VOps(<<OpArg("subquery", subquery(InnerFlat, <<>>))>>))>>,
      <<Entry(ColId, subquery(InnerDeep, <<>>))>>,
      <<Entry(ColId, VOps(<<OpArg("notIn", subquery(InnerHaving, <<>>))>>))>> }

OrWhereInputs ==
    { <<Entry(ColName, VOps(<<OpArg("between", VList(<<"lo", "hi">>))>>))>>,
      <<Entry(ColId, VOps(<<OpArg("subquery", subquery(InnerNested, <<>>))>>))>> }

InsertInputs ==
    { [kind |-> "object", rows |-> <<<<Field(ColId, "1"), Field(ColName, "A")>>>>],
      [kind |-> "array",
       rows |-> << <<Field(ColId, "1"), Field(ColName, "A")>>, <<Field(ColId, "2")>> >>],
      [kind |-> "array", rows |-> <<>>],
      [kind |-> "object", rows |-> << <<>> >>] }

UpdateInputs ==
    { [kind |-> "object", rows |-> <<<<Field(ColName, "B")>>>>],
      [kind |-> "object", rows |-> << <<>> >>] }

DoUpdateInputs == { <<Field(ColName, "A2")>>, <<>> }

FromInputs == { subquery(InnerFlat, <<"r">>), subquery(InnerNested, <<>>) }

HavingInputs ==
    { [raw |-> HavingOne, values |-> <<"h">>],
      [raw |-> HavingTwo, values |-> <<"lo", "hi">>] }

ReturningInputs == { <<"false">>, <<ColId, ColName>>, <<>> }

-----------------------------------------------------------------------------
(* The builder as a state machine: one action per public method *)

This == [kind |-> "this", ok |-> TRUE, err |-> "", sql |-> <<>>, values |-> <<>>]

\* a chain method returns the builder itself
ReturnThis ==
    /\ ret' = This
    /\ calls' = calls + 1
    /\ UNCHANGED <<txVars, migVars, logVars, handleVars>>

BuilderInit ==
    /\ b = NewBuilder(TblUsers)
    /\ ret = This
    /\ calls = 0

Insert ==
    /\ calls < MaxCalls
    /\ \E data \in InsertInputs : b' = insert(b, data)
    /\ ReturnThis

Update ==
    /\ calls < MaxCalls
    /\ \E data \in UpdateInputs : b' = update(b, data)
    /\ ReturnThis

Delete ==
    /\ calls < MaxCalls
    /\ b' = delete(b)
    /\ ReturnThis

InnerJoin ==
    /\ calls < MaxCalls
    /\ b' = innerJoin(b, <<"o">>, ColQualified, "=", <<"o", ".", "u">>)
    /\ ReturnThis

LeftJoin ==
    /\ calls < MaxCalls
    /\ b' = leftJoin(b, <<"o">>, ColQualified, "=", <<"o", ".", "u">>)
    /\ ReturnThis

RightJoin ==
    /\ calls < MaxCalls
    /\ b' = rightJoin(b, <<"o">>, ColQualified, "=", <<"o", ".", "u">>)
    /\ ReturnThis

FullJoin ==
    /\ calls < MaxCalls
    /\ b' = fullJoin(b, <<"o">>, ColQualified, "=", <<"o", ".", "u">>)
    /\ ReturnThis

Select ==
    /\ calls < MaxCalls
    /\ b' = select(b, <<ColId, ColAggregate>>)
    /\ ReturnThis

Where ==
    /\ calls < MaxCalls
    /\ \E c \in WhereInputs : b' = where(b, c)
    /\ ReturnThis

OrWhere ==
    /\ calls < MaxCalls
    /\ \E c \in OrWhereInputs : b' = orWhere(b, c)
    /\ ReturnThis

OrderBy ==
    /\ calls < MaxCalls
    /\ b' = orderBy(b, ColName, "ASC")
    /\ ReturnThis

GroupBy ==
    /\ calls < MaxCalls
    /\ b' = groupBy(b, <<ColId>>)
    /\ ReturnThis

Having ==
    /\ calls < MaxCalls
    /\ \E h \in HavingInputs : b' = having(b, h.raw, h.values)
    /\ ReturnThis

OnConflictDoUpdate ==
    /\ calls < MaxCalls
    /\ \E data \in DoUpdateInputs : b' = doUpdate(b, <<ColId>>, data)
    /\ ReturnThis

OnConflictDoNothing ==
    /\ calls < MaxCalls
    /\ b' = doNothing(b, <<ColId>>)
    /\ ReturnThis

From ==
    /\ calls < MaxCalls
    /\ \E sub \in FromInputs : b' = from(b, sub)
    /\ ReturnThis

Limit ==
    /\ calls < MaxCalls
    /\ b' = limit(b, 5)
    /\ ReturnThis

Offset ==
    /\ calls < MaxCalls
    /\ b' = offset(b, 10)
    /\ ReturnThis

Returning ==
    /\ calls < MaxCalls
    /\ \E args \in ReturningInputs : b' = returning(b, args)
    /\ ReturnThis

\* toSQL(): renders, and leaves the builder as it is
ToSQLCall ==
    /\ ret' = [kind |-> "toSQL"] @@ ToSQL(b)
    /\ UNCHANGED <<b, calls, txVars, migVars, logVars, handleVars>>

BuilderNext ==
    \/ Insert
    \/ Update
    \/ Delete
    \/ InnerJoin
    \/ LeftJoin
    \/ RightJoin
    \/ FullJoin
    \/ Select
    \/ Where
    \/ OrWhere
    \/ OrderBy
    \/ GroupBy
    \/ Having
    \/ OnConflictDoUpdate
    \/ OnConflictDoNothing
    \/ From
    \/ Limit
    \/ Offset
    \/ Returning
    \/ ToSQLCall

-----------------------------------------------------------------------------
(* Claims about the rendered parameters *)

OneTo(n) == [i \in 1..n |-> i]

\* C1 (parameter safety): whenever toSQL() succeeds, the $N tokens of the
\* rendered SQL, read left to right, are $1, $2, ..., $len(values), each index
\* exactly once.
C1_ParameterSafety ==
    (ret.kind = "toSQL" /\ ret.ok) =>
        ParamIndices(ret.sql) = OneTo(Len(ret.values))

\* the parameters the outer query has appended before it renders anything
\* of its WHERE clause
ParamsBeforeWhere(q) ==
    CASE q.operation = "UPDATE" -> Len(q.data.rows[1])
      [] q.operation = "SELECT" /\ Len(q.fromSubquery) > 0 ->
            Len(ToSQL(q.fromSubquery[1].sub).values)
      [] OTHER -> 0

\* the parameters predicate i of the WHERE clause appends
ParamsOfClause(c) ==
    CASE c.value.t = "subdef" -> Len(ToSQL(c.value.sub).values)
      [] c.operator \in {"IN", "NOT IN"} -> Len(c.value.l)
      [] c.operator \in {"IS", "IS NOT"} -> 0
      [] c.operator = "BETWEEN" -> 2
      [] OTHER -> 1

RECURSIVE ParamsBeforeClause(_, _)
ParamsBeforeClause(q, i) ==
    IF i = 1 THEN ParamsBeforeWhere(q)
    ELSE ParamsBeforeClause(q, i - 1) + ParamsOfClause(q.where[i - 1])

\* the places where builder q embeds an inner builder when it is rendered:
\* the inner builder and the number k of parameters appended before it
Embeddings(q) ==
    (IF q.operation = "SELECT" /\ Len(q.fromSubquery) > 0
     THEN {[inner |-> q.fromSubquery[1].sub, k |-> 0]} ELSE {})
    \cup
    (IF q.operation \in {"SELECT", "UPDATE", "DELETE"}
     THEN {[inner |-> q.where[i].value.sub, k |-> ParamsBeforeClause(q, i)] :
              i \in {j \in 1..Len(q.where) : q.where[j].value.t = "subdef"}}
     ELSE {})

Shifted(seq, k) == [i \in 1..Len(seq) |-> seq[i] + k]

\* seq has part as a run of consecutive elements
HasRun(seq, part) ==
    \E p \in 0..(Len(seq) - Len(part)) :
        \A i \in 1..Len(part) : seq[p + i] = part[i]

\* the rendering `inner` of an inner builder appears in the final rendering
\* moved up by k
RebasedBy(inner, k) ==
    /\ HasRun(ParamIndices(ret.sql), Shifted(ParamIndices(inner.sql), k))
    /\ SubSeq(ret.values, k + 1, k + Len(inner.values)) = inner.values

\* C2 (subquery rebasing): when the outer builder embeds an inner builder at a
\* point where it has appended k parameters, every $n of the inner SQL is
\* $(n+k) in the final SQL, the inner values follow the k outer values in
\* their order, and the indices of the final SQL are 1, 2, ..., contiguous
\* and increasing.
C2_SubqueryRebasing ==
    (ret.kind = "toSQL" /\ ret.ok) =>
        /\ \A e \in Embeddings(b) : RebasedBy(ToSQL(e.inner), e.k)
        /\ ParamIndices(ret.sql) = OneTo(Cardinality(ParamPositions(ret.sql)))

\* the HAVING fragments of q from the j-th on as the claim has them
\* rendered, `base` parameters having been appended before the j-th: every
\* $i of a fragment is $(base+i)
RECURSIVE HavingRenumbered(_, _, _)
HavingRenumbered(q, j, base) ==
    IF j > Len(q.having) THEN <<>>
    ELSE (IF j = 1 THEN <<>> ELSE <<" ", "AND", " ">>)
             \o ReplaceAllParams(q.having[j].raw, 1, base)
             \o HavingRenumbered(q, j + 1, base + Len(q.having[j].values))

\* the values of the having calls of q from the j-th on, in call order
RECURSIVE HavingValues(_, _)
HavingValues(q, j) ==
    IF j > Len(q.having) THEN <<>>
    ELSE q.having[j].values \o HavingValues(q, j + 1)

\* C13 (HAVING renumbering): when toSQL() succeeds on a SELECT with having
\* calls whose fragments use $1..$m for their m values, the rendered SQL has
\* the fragments joined with AND in call order, the i-th placeholder of each
\* rewritten to $(base+i), base being the number of parameters appended
\* before the fragment, and the values of the calls are the last of the
\* rendered values, in order.
C13_HavingRenumbering ==
    (ret.kind = "toSQL" /\ ret.ok /\ b.operation = "SELECT" /\ Len(b.having) > 0) =>
        /\ HasRun(ret.sql,
               <<" ", "HAVING", " ">>
                   \o HavingRenumbered(b, 1, ParamsBeforeClause(b, Len(b.where) + 1)))
        /\ SubSeq(ret.values, ParamsBeforeClause(b, Len(b.where) + 1) + 1, Len(ret.values))
               = HavingValues(b, 1)

-----------------------------------------------------------------------------
(* Claims about the WHERE clause *)

\* the operator of each key of an operator object, as the spec's table has it
ClaimedOperator ==
    [ in |-> "IN", notIn |-> "NOT IN", like |-> "LIKE", ilike |-> "ILIKE",
      gt |-> ">", lt |-> "<", gte |-> ">=", lte |-> "<=", not |-> "!=",
      between |-> "BETWEEN", subquery |-> "IN" ]

\* the predicates the spec's table gives for one key of a condition object,
\* by the shape of its value
ClaimedPredicates(type, e) ==
    CASE e.val.t = "null" -> {WhereClause(type, e.key, "IS", VNull)}
      [] e.val.t = "scalar" -> {WhereClause(type, e.key, "=", e.val)}
      [] e.val.t = "subdef" -> {WhereClause(type, e.key, "IN", e.val)}
      [] OTHER ->
            {WhereClause(type, e.key, ClaimedOperator[e.val.ops[k].op], e.val.ops[k].arg) :
                k \in 1..Len(e.val.ops)}

\* the predicates `added` are those of the entries of conds from the i-th
\* on, entry after entry
RECURSIVE Desugars(_, _, _, _)
Desugars(type, conds, i, added) ==
    IF i > Len(conds) THEN added = <<>>
    ELSE LET n == Cardinality(ClaimedPredicates(type, conds[i]))
         IN  /\ n <= Len(added)
             /\ {added[k] : k \in 1..n} = ClaimedPredicates(type, conds[i])
             /\ Desugars(type, conds, i + 1, SubSeq(added, n + 1, Len(added)))

\* $(n+1), ..., $(n+m) separated by ", "
RECURSIVE ClaimedList(_, _, _)
ClaimedList(n, m, k) ==
    IF k > m THEN <<>>
    ELSE (IF k = 1 THEN <<>> ELSE <<",", " ">>) \o Placeholder(n + k)
             \o ClaimedList(n, m, k + 1)

\* the text the claim gives for one predicate, n parameters having been
\* appended before it
ClaimedText(c, n) ==
    CASE c.operator = "IS" -> _quote(c.column) \o <<" ", "IS", " ", "NULL">>
      [] c.operator = "IN" /\ c.value.l = <<>> -> <<"1=0">>
      [] c.operator = "NOT IN" /\ c.value.l = <<>> -> <<"1=1">>
      [] c.operator \in {"IN", "NOT IN"} /\ c.value.l # <<>> ->
            _quote(c.column) \o <<" ", c.operator, " ", "(">>
                \o ClaimedList(n, Len(c.value.l), 1) \o <<")">>
      [] c.operator = "BETWEEN" ->
            _quote(c.column) \o <<" ", "BETWEEN", " ">> \o Placeholder(n + 1)
                \o <<" ", "AND", " ">> \o Placeholder(n + 2)
      [] OTHER ->
            _quote(c.column) \o <<" ", c.operator, " ">> \o Placeholder(n + 1)

\* the values the claim gives for one predicate
ClaimedValues(c) ==
    CASE c.operator = "IS" -> <<>>
      [] c.operator \in {"IN", "NOT IN", "BETWEEN"} -> c.value.l
      [] OTHER -> <<c.value.v>>

\* the predicates of q from the i-th on: each after its connector, except
\* the first one, with nothing around them
RECURSIVE ClaimedWhere(_, _, _)
ClaimedWhere(q, i, n) ==
    IF i > Len(q.where) THEN [sql |-> <<>>, values |-> <<>>]
    ELSE LET rest == ClaimedWhere(q, i + 1, n + Len(ClaimedValues(q.where[i])))
         IN  [ sql |-> (IF i = 1 THEN <<>> ELSE <<" ", q.where[i].type, " ">>)
                          \o ClaimedText(q.where[i], n) \o rest.sql,
               values |-> ClaimedValues(q.where[i]) \o rest.values ]

\* the builder has predicates, none of them on a subquery, and renders them
RendersPlainWhere ==
    /\ ret.kind = "toSQL"
    /\ ret.ok
    /\ b.operation \in {"SELECT", "UPDATE", "DELETE"}
    /\ Len(b.where) > 0
    /\ \A i \in 1..Len(b.where) : b.where[i].value.t # "subdef"

\* C14 (WHERE desugaring and flattening): on every builder, where(obj) and
\* orWhere(obj) append, key after key, the predicates the table gives for
\* the value of each key (null: IS NULL; scalar: =; in, notIn, like, ilike,
\* gt, lt, gte, lte, not, between: their operator), each with the connector
\* of the call; and a rendered WHERE clause is the predicates in call order,
\* the first without its connector, every later one after its connector,
\* with no grouping, each rendered as the table says (IN of an empty list as
\* constant false, NOT IN of one as constant true), with their values in
\* order.
C14_WhereDesugaring ==
    /\ \A conds \in WhereInputs \cup OrWhereInputs :
        /\ SubSeq(where(b, conds).where, 1, Len(b.where)) = b.where
        /\ Desugars("AND", conds, 1,
               SubSeq(where(b, conds).where, Len(b.where) + 1, Len(where(b, conds).where)))
        /\ SubSeq(orWhere(b, conds).where, 1, Len(b.where)) = b.where
        /\ Desugars("OR", conds, 1,
               SubSeq(orWhere(b, conds).where, Len(b.where) + 1, Len(orWhere(b, conds).where)))
    /\ RendersPlainWhere =>
        /\ HasRun(ret.sql,
               <<" ", "WHERE", " ">> \o ClaimedWhere(b, 1, ParamsBeforeWhere(b)).sql)
        /\ SubSeq(ret.values, ParamsBeforeWhere(b) + 1,
                  ParamsBeforeWhere(b) + Len(ClaimedWhere(b, 1, 0).values))
               = ClaimedWhere(b, 1, 0).values

\* a WHERE clause has been rendered from an equality, an IS NULL and an OR-ed
\* BETWEEN, with no parentheses
C14_Witness ==
    /\ RendersPlainWhere
    /\ Len(b.where) >= 3
    /\ \E i, j, k \in 1..Len(b.where) :
        /\ b.where[i].operator = "IS"
        /\ b.where[j].operator = "="
        /\ b.where[k].operator = "BETWEEN" /\ b.where[k].type = "OR" /\ k > 1
    /\ ~Includes(ret.sql, "(")

-----------------------------------------------------------------------------
(* Transactions: Database.transaction over PostgresAdapter and DummyAdapter *)

MaxTx == 3

MaxStmts == 2

Drivers == {"pg", "dummy"}

\* one transaction() call in progress: the call's id, the call it was made
\* from (0: from outside any transaction), the outermost call it belongs to,
\* whether it runs on the caller's client (this.client is set), where the
\* adapter's code stands, the failure the callback holds uncaught (exc), the
\* failure the catch block holds (err), how the callback ended, and how the
\* call is about to settle
Frame(id, parent, root, flat, pc) ==
    [ id |-> id, parent |-> parent, root |-> root, flat |-> flat, pc |-> pc,
      exc |-> "", err |-> "", fnOut |-> "none", fnErr |-> "",
      out |-> "none", outErr |-> "" ]

\* a statement as the adapter hands it to the client (or records it): its
\* text, the call that issued it, the outermost call, whether it succeeded
Sent(sql, f, ok) == [sql |-> sql, call |-> f.id, root |-> f.root, ok |-> ok]

\* the row a statement of the callback writes
RowOf(f) == [stmt |-> Len(txlog) + 1, call |-> f.id, root |-> f.root]

\* the session executes one statement the client sent; ok is whether the
\* client's query() resolves
PgExec(db, sql, row, ok) ==
    CASE sql = "BEGIN" ->
            IF ok THEN [db EXCEPT !.tx = "open"] ELSE db
      [] sql = "COMMIT" ->
            IF ok /\ db.tx = "open"
            THEN [db EXCEPT !.tx = "idle", !.rows = @ \cup db.written, !.written = {}]
            ELSE [db EXCEPT !.tx = "idle", !.written = {}]
      [] sql = "ROLLBACK" ->
            [db EXCEPT !.tx = "idle", !.written = {}]
      [] OTHER ->
            IF ok THEN [db EXCEPT !.written = @ \cup {row}]
            ELSE [db EXCEPT !.tx = IF @ = "open" THEN "aborted" ELSE @]

\* whether the client's query() may resolve (TRUE) or reject (FALSE)
Outcomes(db, sql) ==
    IF driver = "dummy" THEN {TRUE}
    ELSE IF sql = "STMT" /\ db.tx = "aborted" THEN {FALSE}
    ELSE BOOLEAN

\* a catch block that commits what the callback wrote
CatchSQLCommits == "COMMIT"

\* the statement of the catch block
CatchSQL == "ROLLBACK"

Top == frames[Len(frames)]

SetTop(f) == [frames EXCEPT ![Len(frames)] = f]

Started == Cardinality(done) + Len(frames)

\* the transaction() call of frame f settles; a failure reaches the callback
\* that made the call, if there is one
Settle(f, out, err) ==
    /\ done' = done \cup
           {[ id |-> f.id, parent |-> f.parent, root |-> f.root, flat |-> f.flat,
              fnOut |-> f.fnOut, fnErr |-> f.fnErr, out |-> out, err |-> err ]}
    /\ frames' =
           IF Len(frames) = 1 THEN <<>>
           ELSE [SubSeq(frames, 1, Len(frames) - 1)
                    EXCEPT ![Len(frames) - 1].exc = IF out = "raised" THEN err ELSE @]

TxInitWith(d) ==
    /\ driver = d
    /\ txlog = <<>>
    /\ frames = <<>>
    /\ done = {}
    /\ pgdb = [tx |-> "idle", written |-> {}, rows |-> {}]
    /\ pool = [busy |-> 0, released |-> 0]

TxInit == \E d \in Drivers : TxInitWith(d)

\* db.transaction(fn) on the handle: pg connects a client, dummy records BEGIN
Transaction ==
    /\ frames = <<>>
    /\ Started < MaxTx
    /\ IF driver = "pg"
       THEN /\ frames' = <<Frame(Started + 1, 0, Started + 1, FALSE, "begin")>>
            /\ pool' = [pool EXCEPT !.busy = @ + 1]
            /\ UNCHANGED txlog
       ELSE /\ frames' = <<Frame(Started + 1, 0, Started + 1, FALSE, "fn")>>
            /\ txlog' = Append(txlog, Sent("BEGIN", Frame(Started + 1, 0, Started + 1, FALSE, "fn"), TRUE))
            /\ UNCHANGED pool
    /\ UNCHANGED <<driver, done, pgdb, builderVars, handleVars, migVars, logVars>>

\* tx.transaction(fn2) inside a callback: pg runs fn2 on the same adapter,
\* dummy records another BEGIN
NestedTransaction ==
    /\ frames # <<>>
    /\ Top.pc = "fn"
    /\ Top.exc = ""
    /\ Started < MaxTx
    /\ IF driver = "pg"
       THEN /\ frames' = Append(frames, Frame(Started + 1, Top.id, Top.root, TRUE, "fn"))
            /\ UNCHANGED txlog
       ELSE /\ frames' = Append(frames, Frame(Started + 1, Top.id, Top.root, FALSE, "fn"))
            /\ txlog' = Append(txlog, Sent("BEGIN", Frame(Started + 1, Top.id, Top.root, FALSE, "fn"), TRUE))
    /\ UNCHANGED <<driver, done, pgdb, pool, builderVars, handleVars, migVars, logVars>>

\* await client.query("BEGIN")
Begin ==
    /\ frames # <<>>
    /\ Top.pc = "begin"
    /\ \E ok \in Outcomes(pgdb, "BEGIN") :
        /\ txlog' = Append(txlog, Sent("BEGIN", Top, ok))
        /\ pgdb' = PgExec(pgdb, "BEGIN", RowOf(Top), ok)
        /\ frames' = SetTop(IF ok THEN [Top EXCEPT !.pc = "fn"]
                            ELSE [Top EXCEPT !.pc = "catch", !.err = "E_begin"])
    /\ UNCHANGED <<driver, done, pool, builderVars, handleVars, migVars, logVars>>

\* a statement of the callback, through the transaction-scoped handle
Query ==
    /\ frames # <<>>
    /\ Top.pc = "fn"
    /\ Top.exc = ""
    /\ Cardinality({i \in 1..Len(txlog) : txlog[i].sql = "STMT"}) < MaxStmts
    /\ \E ok \in Outcomes(pgdb, "STMT") :
        /\ txlog' = Append(txlog, Sent("STMT", Top, ok))
        /\ pgdb' = IF driver = "pg" THEN PgExec(pgdb, "STMT", RowOf(Top), ok) ELSE pgdb
        /\ frames' = SetTop(IF ok THEN Top ELSE [Top EXCEPT !.exc = "E_stmt"])
    /\ UNCHANGED <<driver, done, pool, builderVars, handleVars, migVars, logVars>>

\* the callback catches the failure of a statement or of a nested call
FnCatch ==
    /\ frames # <<>>
    /\ Top.pc = "fn"
    /\ Top.exc # ""
    /\ frames' = SetTop([Top EXCEPT !.exc = ""])
    /\ UNCHANGED <<driver, txlog, done, pgdb, pool, builderVars, handleVars, migVars, logVars>>

\* the callback raises: the failure it did not catch, or one of its own
FnRaise ==
    /\ frames # <<>>
    /\ Top.pc = "fn"
    /\ \E e \in (IF Top.exc = "" THEN {"E_fn"} ELSE {Top.exc}) :
        IF Top.flat
        THEN /\ Settle([Top EXCEPT !.fnOut = "raised", !.fnErr = e], "raised", e)
             /\ UNCHANGED txlog
        ELSE IF driver = "pg"
        THEN /\ frames' = SetTop([Top EXCEPT !.pc = "catch", !.err = e, !.exc = "",
                                             !.fnOut = "raised", !.fnErr = e])
             /\ UNCHANGED <<txlog, done>>
        ELSE /\ txlog' = Append(txlog, Sent("ROLLBACK", Top, TRUE))
             /\ Settle([Top EXCEPT !.fnOut = "raised", !.fnErr = e], "raised", e)
    /\ UNCHANGED <<driver, pgdb, pool, builderVars, handleVars, migVars, logVars>>

\* the callback returns
FnReturn ==
    /\ frames # <<>>
    /\ Top.pc = "fn"
    /\ Top.exc = ""
    /\ IF Top.flat
       THEN /\ Settle([Top EXCEPT !.fnOut = "returned"], "returned", "")
            /\ UNCHANGED txlog
       ELSE IF driver = "pg"
       THEN /\ frames' = SetTop([Top EXCEPT !.pc = "commit", !.fnOut = "returned"])
            /\ UNCHANGED <<txlog, done>>
       ELSE /\ txlog' = Append(txlog, Sent("COMMIT", Top, TRUE))
            /\ Settle([Top EXCEPT !.fnOut = "returned"], "returned", "")
    /\ UNCHANGED <<driver, pgdb, pool, builderVars, handleVars, migVars, logVars>>

\* await client.query("COMMIT"); return result
Commit ==
    /\ frames # <<>>
    /\ Top.pc = "commit"
    /\ \E ok \in Outcomes(pgdb, "COMMIT") :
        /\ txlog' = Append(txlog, Sent("COMMIT", Top, ok))
        /\ pgdb' = PgExec(pgdb, "COMMIT", RowOf(Top), ok)
        /\ frames' = SetTop(IF ok THEN [Top EXCEPT !.pc = "finally", !.out = "returned"]
                            ELSE [Top EXCEPT !.pc = "catch", !.err = "E_commit"])
    /\ UNCHANGED <<driver, done, pool, builderVars, handleVars, migVars, logVars>>

\* catch (error) { await client.query("ROLLBACK"); throw error }
Rollback ==
    /\ frames # <<>>
    /\ Top.pc = "catch"
    /\ \E ok \in Outcomes(pgdb, CatchSQL) :
        /\ txlog' = Append(txlog, Sent(CatchSQL, Top, ok))
        /\ pgdb' = PgExec(pgdb, CatchSQL, RowOf(Top), ok)
        /\ frames' = SetTop([Top EXCEPT !.pc = "finally", !.out = "raised",
                                        !.outErr = IF ok THEN Top.err ELSE "E_rollback"])
    /\ UNCHANGED <<driver, done, pool, builderVars, handleVars, migVars, logVars>>

\* a release that is skipped when ROLLBACK itself failed: no finally block
ReleaseUnlessRollbackFailed ==
    /\ frames # <<>>
    /\ Top.pc = "finally"
    /\ pool' = IF Top.outErr = "E_rollback" THEN pool
               ELSE [pool EXCEPT !.busy = @ - 1, !.released = @ + 1]
    /\ Settle(Top, Top.out, Top.outErr)
    /\ UNCHANGED <<driver, txlog, pgdb, builderVars, handleVars, migVars, logVars>>

\* finally { client.release() }, and the call settles
Release ==
    /\ frames # <<>>
    /\ Top.pc = "finally"
    /\ pool' = [pool EXCEPT !.busy = @ - 1, !.released = @ + 1]
    /\ Settle(Top, Top.out, Top.outErr)
    /\ UNCHANGED <<driver, txlog, pgdb, builderVars, handleVars, migVars, logVars>>

TxNext ==
    \/ Transaction
    \/ NestedTransaction
    \/ Begin
    \/ Query
    \/ FnCatch
    \/ FnRaise
    \/ FnReturn
    \/ Commit
    \/ Rollback
    \/ Release

-----------------------------------------------------------------------------
(* Claims about transactions *)

\* the positions of the log where call c sent `sql`
SentBy(c, sql) == {i \in 1..Len(txlog) : txlog[i].sql = sql /\ txlog[i].call = c.id}

\* C3 (transaction protocol): for every settled transaction() call that
\* opens a transaction of the driver (a top-level call on PostgresAdapter, any
\* call on DummyAdapter), BEGIN is sent before every statement of the
\* callback; if the callback returned, COMMIT is sent after its last
\* statement and no ROLLBACK is sent; if the callback raised, ROLLBACK is
\* sent, COMMIT is not, and the call fails with the callback's failure.
C3_TransactionProtocol ==
    \A c \in done :
        ~c.flat =>
            /\ \A i \in SentBy(c, "STMT") : \E j \in SentBy(c, "BEGIN") : j < i
            /\ (c.fnOut = "returned") =>
                   /\ \E j \in SentBy(c, "COMMIT") : \A i \in SentBy(c, "STMT") : i < j
                   /\ SentBy(c, "ROLLBACK") = {}
            /\ (c.fnOut = "raised") =>
                   /\ SentBy(c, "ROLLBACK") # {}
                   /\ SentBy(c, "COMMIT") = {}
                   /\ c.out = "raised"
                   /\ c.err = c.fnErr

\* the rows the statements of the log wrote
Written ==
    {[stmt |-> i, call |-> txlog[i].call, root |-> txlog[i].root] :
        i \in {j \in 1..Len(txlog) : txlog[j].sql = "STMT" /\ txlog[j].ok}}

\* the rows written by the callback of call c itself
RowsBy(c) == {r \in Written : r.call = c.id}

\* the rows written inside the outermost call c, nested callbacks included
RowsIn(c) == {r \in Written : r.root = c.id}

\* a statement failed inside the outermost call c
StmtFailedIn(c) ==
    \E i \in 1..Len(txlog) :
        txlog[i].sql = "STMT" /\ txlog[i].root = c.id /\ ~txlog[i].ok

\* C4 as the spec states it (transaction atomicity, per callback): on
\* PostgresAdapter, once every call has settled, for every callback run
\* through transaction(), nested ones included: if it raised, none of the rows
\* it wrote persist; if it returned, all the rows it wrote persist.
C4_AtomicityPerCallback ==
    (driver = "pg" /\ frames = <<>>) =>
        \A c \in done :
            /\ (c.fnOut = "raised") => (RowsBy(c) \cap pgdb.rows = {})
            /\ (c.fnOut = "returned") => (RowsBy(c) \subseteq pgdb.rows)

\* C4 (transaction atomicity, amended): atomicity is that of the outermost
\* transaction() call on PostgresAdapter.  If that call fails (its callback
\* raised, or BEGIN or COMMIT failed), none of the rows written inside it
\* persist, those of nested callbacks that returned included; if it returns
\* and no statement inside it failed, all the rows written inside it persist,
\* those of nested callbacks that raised included; in every case the rows
\* written inside it persist together or not at all.
C4_AtomicityOutermost ==
    (driver = "pg") =>
        \A c \in done :
            (c.parent = 0) =>
                /\ (c.out = "raised") => (RowsIn(c) \cap pgdb.rows = {})
                /\ (c.out = "returned" /\ ~StmtFailedIn(c)) => (RowsIn(c) \subseteq pgdb.rows)
                /\ (RowsIn(c) \subseteq pgdb.rows) \/ (RowsIn(c) \cap pgdb.rows = {})

\* an outermost call on PostgresAdapter has failed after a nested callback
\* wrote a row and returned, and another has returned with the row of a
\* nested callback that raised
C4_Witness ==
    /\ driver = "pg"
    /\ frames = <<>>
    /\ \E c \in done, n \in done :
        /\ c.parent = 0
        /\ n.parent = c.id
        /\ n.flat
        /\ RowsBy(n) # {}
        /\ \/ c.out = "raised" /\ n.fnOut = "returned" /\ RowsIn(c) \cap pgdb.rows = {}
           \/ c.out = "returned" /\ n.fnOut = "raised" /\ RowsBy(n) \subseteq pgdb.rows

\* C11 (nested transactions are flattened): on PostgresAdapter and on
\* DummyAdapter, a settled transaction() call that was made from inside a
\* transaction callback has sent no BEGIN, COMMIT or ROLLBACK of its own, and
\* its statements went to the outermost call's transaction.
C11_NestedFlattened ==
    \A c \in done :
        (c.parent # 0) =>
            /\ SentBy(c, "BEGIN") = {}
            /\ SentBy(c, "COMMIT") = {}
            /\ SentBy(c, "ROLLBACK") = {}
            /\ \A i \in SentBy(c, "STMT") : txlog[i].root = c.root

-----------------------------------------------------------------------------
(* Migrations: Migrator.up and Migrator.down over the tracking table *)

MaxMigCalls == 3

MaxConcCalls == 2

MaxFiles == 3

\* the characters of the file names below, in the order of their UTF-16 code
\* units: "-" is 45, "." is 46, the letters follow
CharOrder == <<"-", ".", "a", "b", "d", "j", "m", "s", "t">>

CodeUnit(c) == CHOOSE i \in 1..Len(CharOrder) : CharOrder[i] = c

\* s < t as the default Array.prototype.sort() compares two strings
Less(s, t) ==
    \/ Len(s) < Len(t) /\ SubSeq(t, 1, Len(s)) = s
    \/ \E k \in 1..Len(s) :
          /\ k <= Len(t)
          /\ SubSeq(s, 1, k - 1) = SubSeq(t, 1, k - 1)
          /\ CodeUnit(s[k]) < CodeUnit(t[k])

\* .sort() of a set of distinct strings
Sorted(S) ==
    [i \in 1..Cardinality(S) |->
        CHOOSE x \in S : Cardinality({y \in S : Less(y, x)}) = i - 1]

\* the sequence reversed
Reversed(seq) == [i \in 1..Len(seq) |-> seq[Len(seq) + 1 - i]]

EndsWith(f, suffix) ==
    /\ Len(suffix) <= Len(f)
    /\ SubSeq(f, Len(f) - Len(suffix) + 1, Len(f)) = suffix

\* [".ts", ".mts", ".js", ".mjs"], the alternatives of /\.(ts|mts|js|mjs)$/
Extensions ==
    << <<".", "t", "s">>, <<".", "m", "t", "s">>, <<".", "j", "s">>,
       <<".", "m", "j", "s">> >>

\* /\.(ts|mts|js|mjs)$/.test(f)
IsMigrationFile(f) == \E i \in 1..Len(Extensions) : EndsWith(f, Extensions[i])

\* f.endsWith(".d.ts")
IsDeclaration(f) == EndsWith(f, <<".", "d", ".", "t", "s">>)

\* f.replace(/\.(ts|mts|js|mjs)$/, "")
StripExt(f) ==
    IF IsMigrationFile(f)
    THEN SubSeq(f, 1, Len(f) - Len(Extensions[CHOOSE i \in 1..Len(Extensions) :
                                                 EndsWith(f, Extensions[i])]))
    ELSE f

\* readdirSync(dir).filter(...).filter(...).sort().map(...)
listMigrationFiles(dir) ==
    [i \in 1..Cardinality({f \in dir : IsMigrationFile(f) /\ ~IsDeclaration(f)}) |->
        StripExt(Sorted({f \in dir : IsMigrationFile(f) /\ ~IsDeclaration(f)})[i])]

\* executed.map(r => r.name)
Names(rows) == {r.name : r \in rows}

\* seq.filter(keep): the elements of seq that are in keep, in their order
RECURSIVE Filter(_, _)
Filter(seq, keep) ==
    IF Len(seq) = 0 THEN <<>>
    ELSE (IF seq[1] \in keep THEN <<seq[1]>> ELSE <<>>) \o Filter(Tail(seq), keep)

\* allFiles.filter(name => !executedNames.has(name))
getPending(dir, rows) ==
    Filter(listMigrationFiles(dir),
           {listMigrationFiles(dir)[i] : i \in 1..Len(listMigrationFiles(dir))}
               \ Names(rows))

\* a batch lookup that always answers 0
NoBatch(rows) == 0

\* SELECT COALESCE(MAX("batch"), 0)
getCurrentBatch(rows) ==
    IF rows = {} THEN 0
    ELSE CHOOSE m \in {r.batch : r \in rows} : \A r \in rows : r.batch <= m

\* a batch that is the current one, not the next
SameBatch(rows) == getCurrentBatch(rows)

\* const batch = (await this.getCurrentBatch()) + 1
NextBatch(rows) == getCurrentBatch(rows) + 1

\* the rows of the batch by name ascending
SelectBatchAsc(rows, batch) == Sorted({r.name : r \in {x \in rows : x.batch = batch}})

\* SELECT * ... WHERE "batch" = $1 ORDER BY "name" DESC, the names of the rows
SelectBatchDesc(rows, batch) ==
    Reversed(Sorted({r.name : r \in {x \in rows : x.batch = batch}}))

\* a tracking table without the constraint
NameNotUnique == FALSE

\* "name" TEXT NOT NULL UNIQUE
NameUnique == TRUE

\* loadMigration finds a file name + ext
HasFile(dir, name) == \E i \in 1..Len(Extensions) : (name \o Extensions[i]) \in dir

FileNames ==
    { <<"a", "-", "b", ".", "t", "s">>,
      <<"a", ".", "t", "s">>,
      <<"a", ".", "j", "s">>,
      <<"b", ".", "m", "j", "s">>,
      <<"b", ".", "d", ".", "t", "s">> }

Idle ==
    [ pc |-> "idle", op |-> "none", names |-> <<>>, batch |-> 0, i |-> 1,
      result |-> <<>>, before |-> {}, dir |-> {}, events |-> <<>> ]

Event(kind, name, ok, err) == [kind |-> kind, name |-> name, ok |-> ok, err |-> err]

\* the projection of the tracking rows on (name, batch)
Tracked(rows) == {[name |-> r.name, batch |-> r.batch] : r \in rows}

MigInitWith(procs) ==
    /\ files = {}
    /\ migdb = [exists |-> FALSE, serial |-> 0, rows |-> {}]
    /\ proc = [p \in procs |-> Idle]
    /\ hist = <<>>
    /\ tailAdds = TRUE

MigStarted == Len(hist) + Cardinality({p \in DOMAIN proc : proc[p].pc # "idle"})

\* the number of calls explored: of one process, or of two at a time
CallBound == IF Cardinality(DOMAIN proc) = 1 THEN MaxMigCalls ELSE MaxConcCalls

\* the call of process p settles
MigSettle(p, st, out, err) ==
    /\ hist' = Append(hist,
           [ p |-> p, op |-> st.op, out |-> out, err |-> err, result |-> st.result,
             batch |-> st.batch, before |-> st.before, dir |-> st.dir,
             after |-> Tracked(migdb'.rows), events |-> st.events ])
    /\ proc' = [proc EXCEPT ![p] = Idle]

\* somebody puts a file in the migration directory, between calls
AddFile ==
    /\ Cardinality(files) < MaxFiles
    /\ \A p \in DOMAIN proc : proc[p].pc = "idle"
    /\ \E f \in FileNames \ files :
        /\ files' = files \cup {f}
        /\ tailAdds' =
               (tailAdds /\
                   ((IsMigrationFile(f) /\ ~IsDeclaration(f)) =>
                       \A g \in {h \in files : IsMigrationFile(h) /\ ~IsDeclaration(h)} :
                           Less(g, f)))
    /\ UNCHANGED <<migdb, proc, hist, builderVars, handleVars, txVars, logVars>>

\* a process calls up()
Up ==
    /\ MigStarted < CallBound
    /\ \E p \in DOMAIN proc :
        /\ proc[p].pc = "idle"
        /\ proc' = [proc EXCEPT ![p] =
               [Idle EXCEPT !.pc = "ensure", !.op = "up", !.before = Tracked(migdb.rows)]]
    /\ UNCHANGED <<files, migdb, hist, tailAdds, builderVars, handleVars, txVars, logVars>>

\* a process calls down()
Down ==
    /\ MigStarted < CallBound
    /\ \E p \in DOMAIN proc :
        /\ proc[p].pc = "idle"
        /\ proc' = [proc EXCEPT ![p] =
               [Idle EXCEPT !.pc = "ensure", !.op = "down", !.before = Tracked(migdb.rows)]]
    /\ UNCHANGED <<files, migdb, hist, tailAdds, builderVars, handleVars, txVars, logVars>>

\* await this.ensureTable(): in up() and down(), and again in getPending()
EnsureTable ==
    /\ \E p \in DOMAIN proc :
        /\ proc[p].pc \in {"ensure", "ensurePending"}
        /\ proc' = [proc EXCEPT ![p].pc =
               IF proc[p].pc = "ensurePending" THEN "executed"
               ELSE IF proc[p].op = "up" THEN "ensurePending" ELSE "batch"]
    /\ migdb' = [migdb EXCEPT !.exists = TRUE]
    /\ UNCHANGED <<files, hist, tailAdds, builderVars, handleVars, txVars, logVars>>

\* getPending(): await this.getExecuted(), then the listing and the filter;
\* up() returns [] when nothing is pending
GetExecuted ==
    /\ \E p \in DOMAIN proc :
        /\ proc[p].pc = "executed"
        /\ migdb' = migdb
        /\ IF Len(getPending(files, migdb.rows)) = 0
           THEN MigSettle(p, [proc[p] EXCEPT !.dir = files], "returned", "")
           ELSE /\ proc' = [proc EXCEPT ![p] =
                       [@ EXCEPT !.pc = "batch", !.dir = files,
                                 !.names = getPending(files, migdb.rows)]]
                /\ UNCHANGED hist
    /\ UNCHANGED <<files, tailAdds, builderVars, handleVars, txVars, logVars>>

\* await this.getCurrentBatch(); down() returns [] when it is 0
GetCurrentBatch ==
    /\ \E p \in DOMAIN proc :
        /\ proc[p].pc = "batch"
        /\ migdb' = migdb
        /\ IF proc[p].op = "up"
           THEN /\ proc' = [proc EXCEPT ![p] =
                       [@ EXCEPT !.pc = "load", !.batch = NextBatch(migdb.rows)]]
                /\ UNCHANGED hist
           ELSE IF getCurrentBatch(migdb.rows) = 0
           THEN MigSettle(p, proc[p], "returned", "")
           ELSE /\ proc' = [proc EXCEPT ![p] =
                       [@ EXCEPT !.pc = "select", !.batch = getCurrentBatch(migdb.rows)]]
                /\ UNCHANGED hist
    /\ UNCHANGED <<files, tailAdds, builderVars, handleVars, txVars, logVars>>

\* down(): the rows of the current batch, by name descending
SelectBatch ==
    /\ \E p \in DOMAIN proc :
        /\ proc[p].pc = "select"
        /\ migdb' = migdb
        /\ IF Len(SelectBatchDesc(migdb.rows, proc[p].batch)) = 0
           THEN MigSettle(p, proc[p], "returned", "")
           ELSE /\ proc' = [proc EXCEPT ![p] =
                       [@ EXCEPT !.pc = "load",
                                 !.names = SelectBatchDesc(migdb.rows, proc[p].batch)]]
                /\ UNCHANGED hist
    /\ UNCHANGED <<files, tailAdds, builderVars, handleVars, txVars, logVars>>

\* await this.loadMigration(name): the file is missing or exports no up/down
\* functions, or the module is returned
LoadMigration ==
    /\ \E p \in DOMAIN proc :
        /\ proc[p].pc = "load"
        /\ migdb' = migdb
        /\ \E ok \in (IF HasFile(files, proc[p].names[proc[p].i]) THEN BOOLEAN ELSE {FALSE}) :
            IF ok
            THEN /\ proc' = [proc EXCEPT ![p].pc = "body"]
                 /\ UNCHANGED hist
            ELSE MigSettle(p, proc[p], "raised", "E_load")
    /\ UNCHANGED <<files, tailAdds, builderVars, handleVars, txVars, logVars>>

\* await migration.up(runner) or await migration.down(runner)
RunMigration ==
    /\ \E p \in DOMAIN proc :
        /\ proc[p].pc = "body"
        /\ migdb' = migdb
        /\ \E ok \in BOOLEAN :
            IF ok
            THEN /\ proc' = [proc EXCEPT ![p] =
                        [@ EXCEPT !.pc = "record",
                                  !.events = Append(@, Event(proc[p].op, proc[p].names[proc[p].i], TRUE, ""))]]
                 /\ UNCHANGED hist
            ELSE MigSettle(p, [proc[p] EXCEPT
                                  !.events = Append(@, Event(proc[p].op, proc[p].names[proc[p].i], FALSE, "E_body"))],
                           "raised", "E_body")
    /\ UNCHANGED <<files, tailAdds, builderVars, handleVars, txVars, logVars>>

\* a recording statement whose failure takes the rows of its batch with it
RecordSQLUndoingBatch(db, op, name, batch, err) ==
    IF err # "" THEN [db EXCEPT !.rows = {r \in @ : r.batch # batch}]
    ELSE IF op = "up"
    THEN [db EXCEPT !.serial = @ + 1,
                    !.rows = @ \cup {[id |-> db.serial + 1, name |-> name, batch |-> batch]}]
    ELSE [db EXCEPT !.rows = {r \in @ : r.name # name}]

\* the statement that records the migration: the INSERT of up(), the DELETE
\* of down(); err is "" when the driver resolves
RecordSQL(db, op, name, batch, err) ==
    IF err # "" THEN db
    ELSE IF op = "up"
    THEN [db EXCEPT !.serial = @ + 1,
                    !.rows = @ \cup {[id |-> db.serial + 1, name |-> name, batch |-> batch]}]
    ELSE [db EXCEPT !.rows = {r \in @ : r.name # name}]

\* how the recording statement may end: the UNIQUE constraint rejects a
\* second row of a name, and the driver may fail
RecordErrors(db, op, name) ==
    IF op = "up" /\ NameUnique /\ name \in Names(db.rows)
    THEN {"E_unique", "E_driver"}
    ELSE {"", "E_driver"}

\* after the statement: applied.push(name) and the next of the loop, or the
\* return of the list, or the failure
AfterRecord(p, st, err) ==
    IF err # "" THEN MigSettle(p, st, "raised", err)
    ELSE IF st.i = Len(st.names)
    THEN MigSettle(p, [st EXCEPT !.result = Append(@, st.names[st.i])], "returned", "")
    ELSE /\ proc' = [proc EXCEPT ![p] =
                [st EXCEPT !.pc = "load", !.i = @ + 1,
                           !.result = Append(@, st.names[st.i])]]
         /\ UNCHANGED hist

\* await this._adapter.query(INSERT ...) or (DELETE ...)
RecordMigration ==
    /\ \E p \in DOMAIN proc :
        /\ proc[p].pc = "record"
        /\ \E err \in RecordErrors(migdb, proc[p].op, proc[p].names[proc[p].i]) :
            /\ migdb' = RecordSQL(migdb, proc[p].op, proc[p].names[proc[p].i],
                                  proc[p].batch, err)
            /\ AfterRecord(p,
                   [proc[p] EXCEPT !.events = Append(@,
                       Event(IF proc[p].op = "up" THEN "insert" ELSE "delete",
                             proc[p].names[proc[p].i], err = "", err))],
                   err)
    /\ UNCHANGED <<files, tailAdds, builderVars, handleVars, txVars, logVars>>

MigNext ==
    \/ AddFile
    \/ Up
    \/ Down
    \/ EnsureTable
    \/ GetExecuted
    \/ GetCurrentBatch
    \/ SelectBatch
    \/ LoadMigration
    \/ RunMigration
    \/ RecordMigration

-----------------------------------------------------------------------------
(* Claims about migrations *)

\* the settled calls of one operation
CallsOf(op) == {i \in 1..Len(hist) : hist[i].op = op}

\* the elements of a sequence
Range(seq) == {seq[i] : i \in 1..Len(seq)}

\* the events of a call that ran `body` on each name of `names` in order and
\* recorded each with `stmt`, all successfully
RanInOrder(events, names, body, stmt) ==
    /\ Len(events) = 2 * Len(names)
    /\ \A i \in 1..Len(names) :
        /\ events[2 * i - 1] = Event(body, names[i], TRUE, "")
        /\ events[2 * i] = Event(stmt, names[i], TRUE, "")

\* the largest batch of a set of tracking rows that is not empty
MaxBatch(rows) == CHOOSE m \in {r.batch : r \in rows} : \A r \in rows : r.batch <= m

\* the names of the listing of `dir` that `rows` do not track
PendingNames(dir, rows) == Range(listMigrationFiles(dir)) \ {r.name : r \in rows}

\* what a returned up() must have done, having applied `names` in order
UpApplied(c, names) ==
    /\ c.result = names
    /\ RanInOrder(c.events, names, "up", "insert")
    /\ c.after = c.before \cup
           {[name |-> n, batch |-> (IF c.before = {} THEN 0 ELSE MaxBatch(c.before)) + 1] :
               n \in Range(names)}
    /\ (names = <<>>) => (c.after = c.before /\ c.events = <<>>)

\* C5 as the spec states it: a returned up() has applied exactly the names of
\* the listing that the tracking table did not hold, in lexicographic order
\* of name, running up(helper) and then inserting (name, batch) for each, with
\* batch = the maximum batch before the call (0 if none) + 1; it returns the
\* names in that order, and [] with no row inserted when nothing is pending.
C5_UpByName ==
    \A i \in CallsOf("up") :
        (hist[i].out = "returned") =>
            UpApplied(hist[i], Sorted(PendingNames(hist[i].dir, hist[i].before)))

\* C5 (Migrator.up, amended): a returned up() has applied exactly the names
\* of the listing that the tracking table did not hold, in the order of the
\* listing, which is the order of the file names sorted with their extension
\* and not the order of the names; for each it ran up(helper) and then
\* inserted (name, batch), with batch = the maximum batch before the call (0
\* if none) + 1, the same for all; it returns the names in that order, and
\* [] with no row inserted when nothing is pending.
C5_UpInListingOrder ==
    \A i \in CallsOf("up") :
        (hist[i].out = "returned") =>
            /\ Range(hist[i].result) = PendingNames(hist[i].dir, hist[i].before)
            /\ \E pick \in [1..Len(hist[i].result) -> 1..Len(listMigrationFiles(hist[i].dir))] :
                /\ \A j \in 1..Len(hist[i].result) :
                       listMigrationFiles(hist[i].dir)[pick[j]] = hist[i].result[j]
                /\ \A j, k \in 1..Len(hist[i].result) : (j < k) => (pick[j] < pick[k])
            /\ UpApplied(hist[i], hist[i].result)

\* an up() on a table that is not empty has returned two names in an order
\* that is the listing's and not the names'
C5_Witness ==
    \E i \in CallsOf("up") :
        /\ hist[i].out = "returned"
        /\ hist[i].before # {}
        /\ Len(hist[i].result) = 2
        /\ Less(hist[i].result[2], hist[i].result[1])
        /\ \A r \in hist[i].after \ hist[i].before : r.batch = 2

\* C6 (Migrator.down): a returned down() has rolled back exactly the records
\* of the maximum batch, in descending order of name, running down(helper)
\* and then deleting the row for each; the rows of every earlier batch are
\* left as they were, also by a down() that fails; on an empty table it
\* returns [] and runs nothing.
C6_DownLastBatch ==
    \A i \in CallsOf("down") :
        /\ (hist[i].before = {}) =>
               (hist[i].out = "returned" /\ hist[i].result = <<>> /\ hist[i].events = <<>>
                   /\ hist[i].after = {})
        /\ (hist[i].before # {}) =>
               /\ {r \in hist[i].before : r.batch # MaxBatch(hist[i].before)} \subseteq hist[i].after
               /\ hist[i].after \subseteq hist[i].before
               /\ (hist[i].out = "returned") =>
                      /\ hist[i].result =
                             Reversed(Sorted({r.name : r \in {x \in hist[i].before :
                                                 x.batch = MaxBatch(hist[i].before)}}))
                      /\ RanInOrder(hist[i].events, hist[i].result, "down", "delete")
                      /\ hist[i].after =
                             {r \in hist[i].before : r.batch # MaxBatch(hist[i].before)}

\* a down() has rolled back the two records of the last batch, the greater
\* name first, and has left the record of the first batch
C6_Witness ==
    \E i \in CallsOf("down") :
        /\ hist[i].out = "returned"
        /\ Len(hist[i].result) = 2
        /\ Less(hist[i].result[2], hist[i].result[1])
        /\ hist[i].after # {}
        /\ \A r \in hist[i].after : r.batch = 1

\* the call applied at least one migration
Applied(c) == \E k \in 1..Len(c.events) : c.events[k].kind = "insert" /\ c.events[k].ok

\* no process is inside a call
Quiescent == \A p \in DOMAIN proc : proc[p].pc = "idle"

\* the names of the tracking table are those of a prefix of the listing
TrackedIsPrefix ==
    \E n \in 0..Len(listMigrationFiles(files)) :
        {r.name : r \in migdb.rows} = {listMigrationFiles(files)[k] : k \in 1..n}

InsertsTracked(p) ==
    /\ proc[p].pc = "record"
    /\ proc[p].op = "up"
    /\ proc[p].names[proc[p].i] \in {r.name : r \in migdb.rows}

\* the statement of process p fails: no row is written, and the call of p
\* fails with the error of the statement
RecordFails(p) ==
    /\ migdb'.rows = migdb.rows
    /\ Len(hist') = Len(hist) + 1
    /\ hist'[Len(hist')].p = p
    /\ hist'[Len(hist')].op = "up"
    /\ hist'[Len(hist')].out = "raised"
    /\ hist'[Len(hist')].err \in {"E_unique", "E_driver"}
    /\ hist'[Len(hist')].err = hist'[Len(hist')].events[Len(hist'[Len(hist')].events)].err

\* C8 (concurrent up()): with two processes running up() and down() on one
\* tracking table, a name never has more than one tracking row, and an
\* insert of a name that the table already tracks fails: it writes no row,
\* and the up() call that issued it fails with the error of that insert.
C8_ConcurrentUp ==
    /\ [](\A r1, r2 \in migdb.rows : (r1.name = r2.name) => (r1 = r2))
    /\ [][\A p \in DOMAIN proc :
             (InsertsTracked(p) /\ proc'[p] # proc[p]) => RecordFails(p)]_vars

\* two up() calls have computed the same batch for the same name; one has
\* inserted it and the other one has failed on the constraint
C8_Witness ==
    \E i \in CallsOf("up") :
        /\ hist[i].err = "E_unique"
        /\ \E q \in DOMAIN proc \ {hist[i].p} :
            /\ proc[q].op = "up"
            /\ proc[q].batch = hist[i].batch
            /\ \E k \in 1..Len(proc[q].events) :
                proc[q].events[k] =
                    Event("insert", hist[i].events[Len(hist[i].events)].name, TRUE, "")
            /\ \E r \in migdb.rows :
                /\ r.name = hist[i].events[Len(hist[i].events)].name
                /\ r.batch = hist[i].batch

-----------------------------------------------------------------------------
(* The logger hook: Database.raw through the adapter wrapped by _wrapAdapter *)

MaxExecs == 3

SqlInputs == {"SELECT 1", "DELETE FROM t WHERE id = $1"}

ParamInputs == {<<>>, <<"7">>}

Durations == {0, 2}

Resolved(value) == [ok |-> TRUE, value |-> value]

Rejected(error) == [ok |-> FALSE, value |-> error]

\* what the wrapped query does once adapter.query has resolved with `result`
\* at time `end`: logger.query(sql, params, durationMs), which returns or
\* throws, then return result
WrappedResolve(q, result, end, loggerThrows) ==
    [ logged |-> <<[sql |-> q.sql, params |-> q.params, durationMs |-> end - q.start]>>,
      caller |-> IF loggerThrows THEN Rejected("E_logger") ELSE Resolved(result) ]

\* what the wrapped query does once adapter.query has rejected with `error`:
\* the await throws out of the function
WrappedReject(q, error) ==
    [ logged |-> <<>>, caller |-> Rejected(error) ]

\* the record of a settled query: what was asked, what the adapter got and
\* answered, what the logger was called with, what the caller received
Exec(q, adapterOut, end, wrapped) ==
    [ handle |-> q.handle, sql |-> q.sql, params |-> q.params, adapterSql |-> q.sql,
      adapterParams |-> q.params, elapsed |-> end - q.start,
      adapter |-> adapterOut, logged |-> wrapped.logged, caller |-> wrapped.caller,
      loggerThrew |-> (wrapped.caller # adapterOut) ]

\* whether the adapter of handle h is the one _wrapAdapter returns: the
\* handle made by createDB(schema, adapter, options) when options.logger is
\* set; the handle of a transaction callback is made by
\* new Database(this._schema, trxAdapter), without options
Wraps(h) == hasLogger /\ h = "db"

LogInitWith(l) ==
    /\ hasLogger = l
    /\ pending = <<>>
    /\ execs = <<>>
    /\ now = 0

LogInit == \E l \in BOOLEAN : LogInitWith(l)

\* db.raw(sql, params): this._adapter.query(sql, params), the wrapped query
\* reading performance.now() before it awaits the adapter
Raw ==
    /\ pending = <<>>
    /\ Len(execs) < MaxExecs
    /\ \E sql \in SqlInputs, params \in ParamInputs :
        pending' = <<[handle |-> "db", sql |-> sql, params |-> params, start |-> now]>>
    /\ UNCHANGED <<hasLogger, execs, now, builderVars, handleVars, txVars, migVars>>

\* db.transaction(tx => tx.raw(sql, params)): the wrapped transaction passes
\* the callback to adapter.transaction, and the statement goes through the
\* adapter of the handle tx
TxRaw ==
    /\ pending = <<>>
    /\ Len(execs) < MaxExecs
    /\ \E sql \in SqlInputs, params \in ParamInputs :
        pending' = <<[handle |-> "tx", sql |-> sql, params |-> params, start |-> now]>>
    /\ UNCHANGED <<hasLogger, execs, now, builderVars, handleVars, txVars, migVars>>

\* adapter.query resolves
AdapterResolves ==
    /\ pending # <<>>
    /\ \E d \in Durations, result \in {"rows"},
          loggerThrows \in (IF Wraps(pending[1].handle) THEN BOOLEAN ELSE {FALSE}) :
        /\ now' = now + d
        /\ execs' = Append(execs,
               Exec(pending[1], Resolved(result), now + d,
                    IF Wraps(pending[1].handle)
                    THEN WrappedResolve(pending[1], result, now + d, loggerThrows)
                    ELSE [logged |-> <<>>, caller |-> Resolved(result)]))
    /\ pending' = <<>>
    /\ UNCHANGED <<hasLogger, builderVars, handleVars, txVars, migVars>>

\* adapter.query rejects
AdapterRejects ==
    /\ pending # <<>>
    /\ \E d \in Durations :
        /\ now' = now + d
        /\ execs' = Append(execs,
               Exec(pending[1], Rejected("E_driver"), now + d,
                    IF Wraps(pending[1].handle)
                    THEN WrappedReject(pending[1], "E_driver")
                    ELSE [logged |-> <<>>, caller |-> Rejected("E_driver")]))
    /\ pending' = <<>>
    /\ UNCHANGED <<hasLogger, builderVars, handleVars, txVars, migVars>>

LogNext ==
    \/ Raw
    \/ TxRaw
    \/ AdapterResolves
    \/ AdapterRejects

-----------------------------------------------------------------------------
(* Claims about the logger hook *)

\* C9 (logger hook): on a handle created with a logger, every settled
\* exec, whether the driver call succeeded or failed, has invoked the logger
\* exactly once, with the sql and params that were passed to the driver and
\* the time that elapsed over the driver call.
C9_LoggerHook ==
    hasLogger =>
        \A i \in {k \in 1..Len(execs) : execs[k].handle = "db"} :
            /\ Len(execs[i].logged) = 1
            /\ execs[i].logged =
                   <<[ sql |-> execs[i].adapterSql, params |-> execs[i].adapterParams,
                       durationMs |-> execs[i].elapsed ]>>

\* C10 (the logger never alters the outcome): for every settled exec the
\* caller has received exactly what the driver answered, its result or its
\* error, whether the logger returned or raised.
C10_LoggerTolerated ==
    \A i \in 1..Len(execs) : execs[i].caller = execs[i].adapter

\* C12 (the transaction-scoped handle inherits its parent's configuration):
\* when the parent handle was created with a logger, every statement that was
\* executed through the handle of a transaction callback and that the driver
\* completed has been reported to that logger once, with its sql and params,
\* as a statement on the parent handle is.
C12_TxHandleInherits ==
    hasLogger =>
        \A i \in {k \in 1..Len(execs) : execs[k].handle = "tx" /\ execs[k].adapter.ok} :
            /\ Len(execs[i].logged) = 1
            /\ execs[i].logged[1].sql = execs[i].adapterSql
            /\ execs[i].logged[1].params = execs[i].adapterParams

-----------------------------------------------------------------------------
(* The handle's options, the soft-delete overlay and the terminal calls *)

MaxChain == 3

MaxSent == 2

TblTags == <<"t">>

\* 'deleted_at', the default column of the overlay
ColDeletedAt == <<"d">>

NoOptions == [softDelete |-> <<>>]

\* createDB(schema, adapter) and
\* createDB(schema, adapter, { softDelete: { tables: ['users'] } })
OptionInputs ==
    { NoOptions, [softDelete |-> <<[tables |-> {TblUsers}, column |-> ColDeletedAt]>>] }

HandleWhereInputs ==
    { <<Entry(ColId, VScalar("1"))>>,
      <<Entry(ColDeletedAt, VNull)>>,
      <<Entry(ColName, VOps(<<OpArg("between", VList(<<"lo">>))>>))>>,
      <<Entry(ColName, VOps(<<OpArg("between", VList(<<"lo", "hi">>))>>))>> }

\* the table is in the covered set of the options
Covered(o, table) == Len(o.softDelete) > 0 /\ table \in o.softDelete[1].tables

SoftDeleteColumn(o) ==
    IF Len(o.softDelete) > 0 THEN o.softDelete[1].column ELSE ColDeletedAt

\* softDelete() and restore() without the test of the covered set
RequireNothing(o, table) == This

\* softDelete() and restore() fail on a table outside the covered set
RequireOverlay(o, table) ==
    IF Covered(o, table) THEN This ELSE Throw("Soft delete is not enabled")

\* softDelete(): an UPDATE that sets the column to the current time
softDelete(o, q) ==
    update(q, [kind |-> "object", rows |-> <<<<Field(SoftDeleteColumn(o), "now")>>>>])

\* restore(): an UPDATE that sets the column to null
restore(o, q) ==
    update(q, [kind |-> "object", rows |-> <<<<Field(SoftDeleteColumn(o), "null")>>>>])

\* the predicate the overlay appends to the predicates of q, with its
\* connector, or nothing
OverlayPredicate(o, q, sc) ==
    IF ~Covered(o, q.table) \/ q.operation \notin {"SELECT", "UPDATE"} \/ sc = "IncludeAll"
    THEN <<>>
    ELSE (IF Len(q.where) = 0 THEN <<" ", "WHERE", " ">> ELSE <<" ", "AND", " ">>)
             \o _quote(SoftDeleteColumn(o))
             \o (IF sc = "OnlyTrashed" THEN <<" ", "IS", " ", "NOT", " ", "NULL">>
                 ELSE <<" ", "IS", " ", "NULL">>)

\* q with nothing that is rendered after its WHERE clause
UpToWhere(q) ==
    [q EXCEPT !.groupBy = <<>>, !.having = <<>>, !.orderBy = <<>>, !.limit = <<>>,
              !.offset = <<>>, !.returning = [t |-> "false", cols |-> <<>>]]

\* toSQL() of a builder of a handle with options: the overlay's predicate
\* follows the predicates of the builder
ToSQLScoped(o, q, sc) ==
    IF ~ToSQL(q).ok THEN ToSQL(q)
    ELSE Ok(ToSQL(UpToWhere(q)).sql \o OverlayPredicate(o, q, sc)
                \o SubSeq(ToSQL(q).sql, Len(ToSQL(UpToWhere(q)).sql) + 1, Len(ToSQL(q).sql)),
            ToSQL(q).values)

\* a count() that leaves out the builder's WHERE clause
CountSQLNoWhere(q) ==
    Ok(<<"SELECT", " ", "COUNT(*)", " ", "FROM", " ">> \o _quote(q.table) \o _buildJoins(q),
       <<>>)

\* count(): `SELECT COUNT(*) FROM ${table}` + _buildJoins() + _buildWhere(values)
CountSQL(q) ==
    _buildWhere(
        Ok(<<"SELECT", " ", "COUNT(*)", " ", "FROM", " ">> \o _quote(q.table) \o _buildJoins(q),
           <<>>),
        q)

\* count() of a builder of a handle with options; it renders as a SELECT
CountSQLScoped(o, q, sc) ==
    Emit(CountSQL(q), OverlayPredicate(o, [q EXCEPT !.operation = "SELECT"], sc))

\* the builder after count(): _select and _operation are put back only when
\* nothing was thrown
AfterCount(q) ==
    IF CountSQL(q).ok THEN q ELSE [q EXCEPT !.select = <<>>, !.operation = "SELECT"]

\* first(): this._limit = 1
AfterFirst(q) == [q EXCEPT !.limit = <<1>>]

\* one call of this._adapter.query(sql, values), with the builder it came from
Statement(via, q, sc, st) ==
    [via |-> via, q |-> q, scope |-> sc, chain |-> chain, sql |-> st.sql,
     values |-> st.values]

HandleInitWith(o) ==
    /\ opts = o
    /\ scope = "Default"
    /\ chain = <<>>
    /\ sent = <<>>
    /\ schema = <<>>

\* db.query(table)
QueryInit(table) ==
    /\ b = NewBuilder(table)
    /\ ret = This
    /\ calls = 0

\* a chain method of the builder was called, and returned the builder
Chained(name) ==
    /\ ret.ok
    /\ calls < MaxChain
    /\ calls' = calls + 1
    /\ chain' = Append(chain, name)
    /\ ret' = This
    /\ UNCHANGED <<opts, sent, schema, txVars, migVars, logVars>>

HWhere ==
    /\ \E conds \in HandleWhereInputs : b' = where(b, conds)
    /\ Chained("where")
    /\ UNCHANGED scope

HInsert ==
    /\ b' = insert(b, [kind |-> "object", rows |-> <<<<Field(ColName, "A")>>>>])
    /\ Chained("insert")
    /\ UNCHANGED scope

HUpdate ==
    /\ b' = update(b, [kind |-> "object", rows |-> <<<<Field(ColName, "B")>>>>])
    /\ Chained("update")
    /\ UNCHANGED scope

HDelete ==
    /\ b' = delete(b)
    /\ Chained("delete")
    /\ UNCHANGED scope

HJoin ==
    /\ b' = innerJoin(b, <<"o">>, ColQualified, "=", <<"o", ".", "u">>)
    /\ Chained("innerJoin")
    /\ UNCHANGED scope

WithTrashed ==
    /\ scope' = "IncludeAll"
    /\ Chained("withTrashed")
    /\ UNCHANGED b

OnlyTrashed ==
    /\ scope' = "OnlyTrashed"
    /\ Chained("onlyTrashed")
    /\ UNCHANGED b

\* a call that threw: the builder is as it was and the expression is over
Threw(name, thrown) ==
    /\ ret.ok
    /\ calls < MaxChain
    /\ calls' = calls + 1
    /\ chain' = Append(chain, name)
    /\ ret' = [kind |-> name] @@ thrown
    /\ UNCHANGED <<b, scope, opts, sent, schema, txVars, migVars, logVars>>

SoftDelete ==
    IF RequireOverlay(opts, b.table).ok
    THEN /\ b' = softDelete(opts, b)
         /\ scope' = "Default"
         /\ Chained("softDelete")
    ELSE Threw("softDelete", RequireOverlay(opts, b.table))

Restore ==
    IF RequireOverlay(opts, b.table).ok
    THEN /\ b' = restore(opts, b)
         /\ scope' = "OnlyTrashed"
         /\ Chained("restore")
    ELSE Threw("restore", RequireOverlay(opts, b.table))

\* a terminal call: what it rendered goes to the adapter, unless rendering
\* threw
Terminal(via, after, st) ==
    /\ ret.ok
    /\ b' = after
    /\ ret' = [kind |-> via] @@ st
    /\ sent' = IF st.ok THEN Append(sent, Statement(via, after, scope, st)) ELSE sent
    /\ UNCHANGED <<calls, opts, scope, chain, schema, txVars, migVars, logVars>>

Execute ==
    /\ Len(sent) < MaxSent
    /\ Terminal("execute", b, ToSQLScoped(opts, b, scope))

First ==
    /\ Len(sent) < MaxSent
    /\ Terminal("first", AfterFirst(b), ToSQLScoped(opts, AfterFirst(b), scope))

Count ==
    /\ Len(sent) < MaxSent
    /\ Terminal("count", AfterCount(b), CountSQLScoped(opts, b, scope))

HReturningFalse ==
    /\ b' = returning(b, <<"false">>)
    /\ Chained("returning(false)")
    /\ UNCHANGED scope

HReturningCols ==
    /\ b' = returning(b, <<ColId, ColName>>)
    /\ Chained("returning(cols)")
    /\ UNCHANGED scope

HDoUpdate ==
    /\ \E data \in DoUpdateInputs : b' = doUpdate(b, <<ColId>>, data)
    /\ Chained("doUpdate")
    /\ UNCHANGED scope

\* the methods of a mutation and its terminal calls
PolicyNext ==
    \/ HInsert
    \/ HUpdate
    \/ HDelete
    \/ HReturningFalse
    \/ HReturningCols
    \/ HDoUpdate
    \/ Execute
    \/ First
    \/ Count

HandleNext ==
    \/ HWhere
    \/ HInsert
    \/ HUpdate
    \/ HDelete
    \/ HJoin
    \/ WithTrashed
    \/ OnlyTrashed
    \/ SoftDelete
    \/ Restore
    \/ Execute
    \/ First
    \/ Count

-----------------------------------------------------------------------------
(* Claims about the overlay and the terminal calls *)

\* the number of places of seq where the run `part` starts
Occurrences(seq, part) ==
    Cardinality({i \in 1..(Len(seq) - Len(part) + 1) :
                    SubSeq(seq, i, i + Len(part) - 1) = part})

IsNullPredicate == _quote(SoftDeleteColumn(opts)) \o <<" ", "IS", " ", "NULL">>

IsNotNullPredicate ==
    _quote(SoftDeleteColumn(opts)) \o <<" ", "IS", " ", "NOT", " ", "NULL">>

\* what the builder of statement s renders by itself, its own predicates only
OwnRendering(s) == IF s.via = "count" THEN CountSQL(s.q) ELSE ToSQL(s.q)

\* the WHERE clause of the caller's predicates of statement s
CallerWhere(s) ==
    IF Len(s.q.where) = 0 THEN <<>>
    ELSE <<" ", "WHERE", " ">>
             \o ClaimedWhere(s.q, 1,
                             IF s.via = "count" THEN 0 ELSE ParamsBeforeWhere(s.q)).sql

\* pred comes as the last predicate: AND-ed after the caller's predicates,
\* or alone in the WHERE clause when there are none
AppendedLast(s, pred) ==
    HasRun(s.sql,
           CallerWhere(s)
               \o (IF Len(s.q.where) = 0 THEN <<" ", "WHERE", " ">> ELSE <<" ", "AND", " ">>)
               \o pred)

\* statement s is a SELECT, an UPDATE or a count
Scopable(s) == s.via = "count" \/ s.q.operation \in {"SELECT", "UPDATE"}

\* statement s has n predicates `col IS NULL` and m predicates
\* `col IS NOT NULL` more than the caller wrote
Injected(s, n, m) ==
    /\ Occurrences(s.sql, IsNullPredicate)
           = Occurrences(OwnRendering(s).sql, IsNullPredicate) + n
    /\ Occurrences(s.sql, IsNotNullPredicate)
           = Occurrences(OwnRendering(s).sql, IsNotNullPredicate) + m
    /\ s.values = OwnRendering(s).values

Selectors ==
    {"insert", "update", "delete", "softDelete", "restore", "withTrashed", "onlyTrashed"}

\* the last of those methods that was called before statement s, or "none"
LastSelector(s) ==
    IF \E k \in 1..Len(s.chain) : s.chain[k] \in Selectors
    THEN s.chain[CHOOSE k \in 1..Len(s.chain) :
                    /\ s.chain[k] \in Selectors
                    /\ \A j \in (k + 1)..Len(s.chain) : s.chain[j] \notin Selectors]
    ELSE "none"

\* `UPDATE "table" SET "col" = $1`
SetsColumnFirst(s) ==
    <<"UPDATE", " ">> \o _quote(s.q.table) \o <<" ", "SET", " ">>
        \o _quote(SoftDeleteColumn(opts)) \o <<" ", "=", " ">> \o Placeholder(1)

StartsWith(seq, part) == Len(part) <= Len(seq) /\ SubSeq(seq, 1, Len(part)) = part

C16_WitnessDelete ==
    \E i \in 1..Len(sent) :
        /\ Covered(opts, sent[i].q.table)
        /\ LastSelector(sent[i]) = "delete"
        /\ Len(sent[i].q.where) > 0

\* C17: softDelete() and restore() on a table outside the covered set, also
\* when the handle has no soft-delete options at all, fail with the error
\* 'Soft delete is not enabled', and no statement of an expression in which
\* one of them was called on such a table reaches the adapter.
C17_OverlayNotEnabled ==
    /\ (chain # <<>> /\ chain[Len(chain)] \in {"softDelete", "restore"}
            /\ ~Covered(opts, b.table)) =>
           /\ ret.kind = chain[Len(chain)]
           /\ ~ret.ok
           /\ ret.err = "Soft delete is not enabled"
    /\ \A i \in 1..Len(sent) :
           \A k \in 1..Len(sent[i].chain) :
               sent[i].chain[k] \in {"softDelete", "restore"} =>
                   Covered(opts, sent[i].q.table)

\* where(...).softDelete() has failed on a handle without options, and
\* where(...).restore() can fail on a table that the options do not cover
C17_Witness ==
    /\ Len(chain) = 2
    /\ chain[2] \in {"softDelete", "restore"}
    /\ ~Covered(opts, b.table)
    /\ Len(b.where) > 0
    /\ ~ret.ok

\* the calls of insert, update and delete in a chain of calls, in order
RECURSIVE OperationCalls(_)
OperationCalls(ch) ==
    IF ch = <<>> THEN <<>>
    ELSE (IF ch[1] \in {"insert", "update", "delete"} THEN <<ch[1]>> ELSE <<>>)
             \o OperationCalls(Tail(ch))

OperationOf == [insert |-> "INSERT", update |-> "UPDATE", delete |-> "DELETE"]

\* C18 (operation selection): a second call of insert, update or delete on
\* one builder fails, so that no statement comes from a builder on which two
\* of them were called without an error, and a statement of a builder on
\* which one was called has the operation of the first one called.
C18_OperationSelectedOnce ==
    /\ Len(OperationCalls(chain)) >= 2 => ~ret.ok
    /\ \A i \in 1..Len(sent) :
           (sent[i].via \in {"execute", "first"}
                /\ OperationCalls(sent[i].chain) # <<>>
                /\ "softDelete" \notin Range(sent[i].chain)
                /\ "restore" \notin Range(sent[i].chain)) =>
               sent[i].q.operation = OperationOf[OperationCalls(sent[i].chain)[1]]

\* q has a BETWEEN predicate whose value is not a list of two elements
HasBadBetween(q) ==
    \E k \in 1..Len(q.where) :
        /\ q.where[k].operator = "BETWEEN"
        /\ ~(q.where[k].value.t = "list" /\ Len(q.where[k].value.l) = 2)

\* the number of parameters statement s has before its k-th predicate
ParamsBeforePredicate(s, k) ==
    IF s.via = "count" THEN ParamsBeforeClause(s.q, k) - ParamsBeforeWhere(s.q)
    ELSE ParamsBeforeClause(s.q, k)

\* the k-th predicate of statement s, a BETWEEN, is `col BETWEEN $n AND $n+1`
\* and its two values are parameters n and n+1
BetweenRendered(s, k) ==
    /\ HasRun(s.sql,
              _quote(s.q.where[k].column) \o <<" ", "BETWEEN", " ">>
                  \o Placeholder(ParamsBeforePredicate(s, k) + 1)
                  \o <<" ", "AND", " ">>
                  \o Placeholder(ParamsBeforePredicate(s, k) + 2))
    /\ ParamsBeforePredicate(s, k) + 2 <= Len(s.values)
    /\ s.values[ParamsBeforePredicate(s, k) + 1] = s.q.where[k].value.l[1]
    /\ s.values[ParamsBeforePredicate(s, k) + 2] = s.q.where[k].value.l[2]

TerminalKinds == {"execute", "first", "count"}

\* C19 as claimed: on every builder with a BETWEEN predicate whose value is
\* not a list of two elements, execute(), first() and count() fail and send
\* nothing, and a BETWEEN predicate with two elements is rendered as
\* `col BETWEEN $n AND $n+1` with its two values as parameters n, n+1.
C19_BetweenAnyOperation ==
    /\ (ret.kind \in TerminalKinds /\ HasBadBetween(b)) => ~ret.ok
    /\ \A i \in 1..Len(sent) :
           /\ ~HasBadBetween(sent[i].q)
           /\ \A k \in 1..Len(sent[i].q.where) :
                  sent[i].q.where[k].operator = "BETWEEN" => BetweenRendered(sent[i], k)

\* statement s has a WHERE clause for the predicates of its builder: it is
\* not an INSERT
RendersWhere(s) == s.via = "count" \/ s.q.operation # "INSERT"

\* C19: on every builder with a BETWEEN predicate whose value is not a list
\* of two elements, count(), and execute() and first() of a SELECT, UPDATE
\* or DELETE, fail with 'BETWEEN requires an array of exactly 2 values'
\* unless they failed before rendering the predicate, and send nothing; in
\* every statement but an INSERT a BETWEEN predicate is rendered as
\* `col BETWEEN $n AND $n+1` with its two values as parameters n, n+1.
C19_BetweenTwoValues ==
    /\ (ret.kind \in TerminalKinds /\ HasBadBetween(b)
            /\ (ret.kind = "count" \/ b.operation # "INSERT")) =>
           /\ ~ret.ok
           /\ Len(b.joins) = 0 => ret.err = "BETWEEN requires an array of exactly 2 values"
    /\ \A i \in 1..Len(sent) :
           RendersWhere(sent[i]) =>
               /\ ~HasBadBetween(sent[i].q)
               /\ \A k \in 1..Len(sent[i].q.where) :
                      sent[i].q.where[k].operator = "BETWEEN" =>
                          BetweenRendered(sent[i], k)

\* an UPDATE with a BETWEEN of two values was sent, and then, a BETWEEN of
\* one value having been added, execute() failed
C19_Witness ==
    /\ Len(sent) = 1
    /\ sent[1].q.operation = "UPDATE"
    /\ \E k \in 1..Len(sent[1].q.where) : sent[1].q.where[k].operator = "BETWEEN"
    /\ HasBadBetween(b)
    /\ ret.kind = "execute"
    /\ ~ret.ok

\* q is an INSERT, UPDATE or DELETE on which a join method was called
MutationWithJoin(q) ==
    Len(q.joins) > 0 /\ q.operation \in {"INSERT", "UPDATE", "DELETE"}

JoinErrors ==
    { "INSERT does not support JOINS",
      "UPDATE does not support JOINS directly (use subqueries or raw SQL)",
      "DELETE does not support JOINS directly" }

\* C20 as claimed: on a builder with a join and the operation INSERT, UPDATE
\* or DELETE every terminal call fails, count() included, and the adapter
\* receives no statement of such a builder.
C20_EveryTerminalFails ==
    /\ (ret.kind \in TerminalKinds /\ MutationWithJoin(b)) => ~ret.ok
    /\ \A i \in 1..Len(sent) : ~MutationWithJoin(sent[i].q)

\* `SELECT COUNT(*) FROM "table" INNER JOIN`
CountsOverJoins(s) ==
    StartsWith(s.sql,
               <<"SELECT", " ", "COUNT(*)", " ", "FROM", " ">> \o _quote(s.q.table)
                   \o <<" ", "INNER", " ", "JOIN", " ">>)

\* C20 (mutations reject joins): on a builder with a join and the operation
\* INSERT, UPDATE or DELETE, whichever was called first, execute() and
\* first() fail with the error of the operation and the adapter receives no
\* statement of theirs; count() is not rejected: unless a predicate fails to
\* render, it sends its SELECT COUNT(*) over the table and the joins.
C20_MutationsRejectJoins ==
    /\ (ret.kind \in {"execute", "first"} /\ MutationWithJoin(b)) =>
           ~ret.ok /\ ret.err \in JoinErrors
    /\ (ret.kind = "count" /\ MutationWithJoin(b)) =>
           /\ ret.ok
           /\ sent[Len(sent)].via = "count"
           /\ sent[Len(sent)].q = b
           /\ CountsOverJoins(sent[Len(sent)])
    /\ \A i \in 1..Len(sent) :
           MutationWithJoin(sent[i].q) => sent[i].via = "count"

\* update(...).innerJoin(...): count() was sent, then execute() failed
C20_Witness ==
    /\ chain = <<"update", "innerJoin">>
    /\ Len(sent) = 1
    /\ sent[1].via = "count"
    /\ MutationWithJoin(sent[1].q)
    /\ ret.kind = "execute"
    /\ ~ret.ok

\* innerJoin(...).delete(): first() failed and nothing was sent
C20_WitnessJoinFirst ==
    /\ chain = <<"innerJoin", "delete">>
    /\ sent = <<>>
    /\ ret.kind = "first"
    /\ ~ret.ok

-----------------------------------------------------------------------------
(* The terminal calls with the driver's answer *)

MaxAnswered == 1

\* a count as the driver returns it: a string of digits or a number
CountString(digits) == [t |-> "string", s |-> digits, n |-> 0]

CountNumber(n) == [t |-> "number", s |-> <<>>, n |-> n]

\* what this._adapter.query(sql, values) settles with: rows, or a rejection
DriverAnswers ==
    { [ok |-> TRUE, rows |-> <<>>],
      [ok |-> TRUE, rows |-> <<CountString(<<"1", "2">>)>>],
      [ok |-> TRUE, rows |-> <<CountNumber(7), CountNumber(8)>>],
      [ok |-> FALSE, rows |-> <<>>] }

\* Number(row.count)
Number(v) == IF v.t = "string" THEN NumVal(v.s, 1, Len(v.s)) ELSE v.n

NoResult == [t |-> "none", rows |-> <<>>, n |-> 0]

\* result.rows
ExecuteResult(ans) == [t |-> "rows", rows |-> ans.rows, n |-> 0]

\* result.rows[0] ?? null
FirstResult(ans) ==
    IF Len(ans.rows) > 0 THEN [t |-> "row", rows |-> <<ans.rows[1]>>, n |-> 0]
    ELSE [t |-> "null", rows |-> <<>>, n |-> 0]

\* a count() that takes the last row of the answer
CountResultLast(ans) ==
    [t |-> "number", rows |-> <<>>,
     n |-> IF Len(ans.rows) > 0 THEN Number(ans.rows[Len(ans.rows)]) ELSE 0]

\* row ? Number(row.count) : 0, row being result.rows[0]
CountResult(ans) ==
    [t |-> "number", rows |-> <<>>,
     n |-> IF Len(ans.rows) > 0 THEN Number(ans.rows[1]) ELSE 0]

\* what the terminal call settles with, st being what it rendered
Settled(via, st, ans, result) ==
    [kind |-> via, ok |-> st.ok /\ ans.ok,
     err |-> IF ~st.ok THEN st.err ELSE IF ans.ok THEN "" ELSE "E_driver",
     sql |-> st.sql, values |-> st.values, answer |-> ans,
     result |-> IF st.ok /\ ans.ok THEN result ELSE NoResult]

\* the adapter is called when rendering did not throw, and answers
Answered(via, after, st) ==
    /\ ret.ok
    /\ Len(sent) < MaxAnswered
    /\ b' = after
    /\ sent' = IF st.ok THEN Append(sent, Statement(via, after, scope, st)) ELSE sent
    /\ UNCHANGED <<calls, opts, scope, chain, schema, txVars, migVars, logVars>>

TExecute ==
    /\ Answered("execute", b, ToSQL(b))
    /\ \E ans \in DriverAnswers :
           /\ ToSQL(b).ok \/ ans = [ok |-> FALSE, rows |-> <<>>]
           /\ ret' = Settled("execute", ToSQL(b), ans, ExecuteResult(ans))

TFirst ==
    /\ Answered("first", AfterFirst(b), ToSQL(AfterFirst(b)))
    /\ \E ans \in DriverAnswers :
           /\ ToSQL(AfterFirst(b)).ok \/ ans = [ok |-> FALSE, rows |-> <<>>]
           /\ ret' = Settled("first", ToSQL(AfterFirst(b)), ans, FirstResult(ans))

TCount ==
    /\ Answered("count", AfterCount(b), CountSQL(b))
    /\ \E ans \in DriverAnswers :
           /\ CountSQL(b).ok \/ ans = [ok |-> FALSE, rows |-> <<>>]
           /\ ret' = Settled("count", CountSQL(b), ans, CountResult(ans))

\* toSQL(): renders, and leaves the builder as it is
TToSQL ==
    /\ ret.ok
    /\ ret' = [kind |-> "toSQL"] @@ ToSQL(b)
    /\ UNCHANGED <<b, calls, handleVars, txVars, migVars, logVars>>

HSelect ==
    /\ b' = select(b, <<ColId, ColAggregate>>)
    /\ Chained("select")
    /\ UNCHANGED scope

HOrderBy ==
    /\ b' = orderBy(b, ColName, "ASC")
    /\ Chained("orderBy")
    /\ UNCHANGED scope

HGroupBy ==
    /\ b' = groupBy(b, <<ColId>>)
    /\ Chained("groupBy")
    /\ UNCHANGED scope

HHaving ==
    /\ b' = having(b, HavingOne, <<"h">>)
    /\ Chained("having")
    /\ UNCHANGED scope

HLimit ==
    /\ b' = limit(b, 5)
    /\ Chained("limit")
    /\ UNCHANGED scope

HOffset ==
    /\ b' = offset(b, 10)
    /\ Chained("offset")
    /\ UNCHANGED scope

TerminalNext ==
    \/ HWhere
    \/ HJoin
    \/ HUpdate
    \/ HSelect
    \/ HOrderBy
    \/ HGroupBy
    \/ HHaving
    \/ HLimit
    \/ HOffset
    \/ TExecute
    \/ TFirst
    \/ TCount
    \/ TToSQL

-----------------------------------------------------------------------------
(* Claims about RETURNING and ON CONFLICT *)

Returnings == {"returning(false)", "returning(cols)"}

\* the last returning() call before statement s, or "none"
LastReturning(s) ==
    IF \E k \in 1..Len(s.chain) : s.chain[k] \in Returnings
    THEN s.chain[CHOOSE k \in 1..Len(s.chain) :
                    /\ s.chain[k] \in Returnings
                    /\ \A j \in (k + 1)..Len(s.chain) : s.chain[j] \notin Returnings]
    ELSE "none"

EndsWithRun(seq, part) ==
    Len(part) <= Len(seq) /\ SubSeq(seq, Len(seq) - Len(part) + 1, Len(seq)) = part

\* C21 (RETURNING policy): of the statements execute() sent, an INSERT,
\* UPDATE or DELETE of a builder on which returning() was never called ends
\* with RETURNING *; one on which returning(false) was the last returning()
\* call, before or after the operation method, has no RETURNING; one on which
\* returning(c1, c2) was the last returning() call ends with RETURNING "c1",
\* "c2"; a SELECT never has RETURNING.
C21_ReturningPolicy ==
    \A i \in 1..Len(sent) :
        sent[i].via = "execute" =>
            CASE sent[i].q.operation = "SELECT" -> ~Includes(sent[i].sql, "RETURNING")
              [] sent[i].q.operation # "SELECT" /\ LastReturning(sent[i]) = "none" ->
                    EndsWithRun(sent[i].sql, <<" ", "RETURNING", " ", "*">>)
              [] sent[i].q.operation # "SELECT"
                     /\ LastReturning(sent[i]) = "returning(false)" ->
                    ~Includes(sent[i].sql, "RETURNING")
              [] sent[i].q.operation # "SELECT"
                     /\ LastReturning(sent[i]) = "returning(cols)" ->
                    EndsWithRun(sent[i].sql,
                                <<" ", "RETURNING", " ">> \o _quote(ColId) \o <<",", " ">>
                                    \o _quote(ColName))

\* the values of the fields of a row, in order
RECURSIVE FieldValues(_)
FieldValues(row) ==
    IF row = <<>> THEN <<>> ELSE <<row[1].v>> \o FieldValues(Tail(row))

\* q is an INSERT with onConflict(...).doUpdate(a), a without assignments
EmptyDoUpdate(q) ==
    /\ q.operation = "INSERT"
    /\ Len(q.onConflict) > 0
    /\ q.onConflict[1].action = "DO UPDATE"
    /\ Len(q.onConflict[1].updateData) = 0

\* C22 (ON CONFLICT): a statement with ON CONFLICT (...) DO UPDATE SET has
\* at least one assignment, and the values of its assignments are the last
\* parameters, after the row values, in input order; execute() and first()
\* of an INSERT with onConflict(...).doUpdate(a), a without assignments,
\* fail, and no such statement reaches the adapter.
C22_OnConflictAssignments ==
    /\ (ret.kind \in {"execute", "first"} /\ EmptyDoUpdate(b)) => ~ret.ok
    /\ \A i \in 1..Len(sent) :
           Includes(sent[i].sql, "DO UPDATE SET") =>
               /\ ~EmptyDoUpdate(sent[i].q)
               /\ sent[i].values
                      = FieldValues(sent[i].q.data.rows[1])
                            \o FieldValues(sent[i].q.onConflict[1].updateData)

-----------------------------------------------------------------------------
(* Claims about the terminal calls *)

\* ` TYPE JOIN "table" ON "a" = "b"` for the joins of q from the i-th on
RECURSIVE ClaimedJoins(_, _)
ClaimedJoins(q, i) ==
    IF i > Len(q.joins) THEN <<>>
    ELSE <<" ", q.joins[i].type, " ", "JOIN", " ">> \o _quote(q.joins[i].table)
             \o <<" ", "ON", " ">> \o _quote(q.joins[i].col1)
             \o <<" ", q.joins[i].op, " ">> \o _quote(q.joins[i].col2)
             \o ClaimedJoins(q, i + 1)

\* SELECT COUNT(*) over the table, the joins and the predicates of the
\* builder of statement s, and nothing else
ClaimedCount(s) ==
    <<"SELECT", " ", "COUNT(*)", " ", "FROM", " ">> \o _quote(s.q.table)
        \o ClaimedJoins(s.q, 1) \o CallerWhere(s)

\* the number a count() returns for the driver's answer
ClaimedNumber(ans) ==
    CASE ans.rows = <<>> -> 0
      [] ans.rows # <<>> /\ ans.rows[1] = CountString(<<"1", "2">>) -> 12
      [] ans.rows # <<>> /\ ans.rows[1] = CountNumber(7) -> 7

\* C23: a count() that renders sends exactly one statement, which is SELECT
\* COUNT(*) over the table, the joins and the WHERE predicates of the
\* builder, with the parameters of those predicates and nothing of the
\* projection, ORDER BY, LIMIT, OFFSET, GROUP BY or HAVING; when the driver
\* answers, count() returns the count of the first row as a number, and 0
\* when there is no row.
C23_Count ==
    /\ [](/\ \A i \in 1..Len(sent) :
                sent[i].via = "count" =>
                    /\ sent[i].sql = ClaimedCount(sent[i])
                    /\ sent[i].values = ClaimedWhere(sent[i].q, 1, 0).values
          /\ (ret.kind = "count" /\ ret.ok) =>
                /\ ret.result.t = "number"
                /\ ret.result.n = ClaimedNumber(ret.answer))
    /\ [][TCount =>
            /\ ret'.sql # <<>> => Len(sent') = Len(sent) + 1
            /\ ret'.sql # <<>> => sent'[Len(sent')].q = b
            /\ ret'.sql = <<>> => sent' = sent]_vars

\* count() of a builder with a projection, a LIMIT and a predicate has
\* returned the count that the driver gave as a string
C23_Witness ==
    /\ ret.kind = "count"
    /\ ret.ok
    /\ ret.result.n = 12
    /\ Len(sent) = 1
    /\ sent[1].q.select # <<>>
    /\ sent[1].q.limit # <<>>
    /\ Len(sent[1].q.where) > 0

\* C30: execute(), first() and count(), whether they settle with rows, are
\* rejected by the driver or fail to render, leave the builder rendering what
\* it rendered before, and toSQL() leaves the builder as it is, so that a
\* second toSQL() returns what the first returned.
C30_TerminalsKeepRendering ==
    /\ [][(TExecute \/ TFirst \/ TCount) => ToSQL(b') = ToSQL(b)]_vars
    /\ [][TToSQL => (b' = b /\ (ret.kind = "toSQL" => ret' = ret))]_vars

-----------------------------------------------------------------------------
(* Specifications: one per part of the program, the others at rest *)

InitBuilder ==
    BuilderInit /\ TxInitWith("dummy") /\ MigInitWith({1}) /\ LogInitWith(FALSE) /\ HandleInitWith(NoOptions)

SpecBuilder == InitBuilder /\ [][BuilderNext]_vars

InitTx ==
    BuilderInit /\ TxInit /\ MigInitWith({1}) /\ LogInitWith(FALSE) /\ HandleInitWith(NoOptions)

SpecTx == InitTx /\ [][TxNext]_vars

InitMig ==
    BuilderInit /\ TxInitWith("dummy") /\ MigInitWith({1}) /\ LogInitWith(FALSE) /\ HandleInitWith(NoOptions)

SpecMig == InitMig /\ [][MigNext]_vars

InitMigConc ==
    BuilderInit /\ TxInitWith("dummy") /\ MigInitWith({1, 2}) /\ LogInitWith(FALSE) /\ HandleInitWith(NoOptions)

SpecMigConc == InitMigConc /\ [][MigNext]_vars

InitLogger ==
    BuilderInit /\ TxInitWith("dummy") /\ MigInitWith({1}) /\ LogInit /\ HandleInitWith(NoOptions)

SpecLogger == InitLogger /\ [][LogNext]_vars

InitHandle ==
    \E o \in OptionInputs, t \in {TblUsers, TblTags} :
        QueryInit(t) /\ HandleInitWith(o) /\ TxInitWith("dummy") /\ MigInitWith({1})
            /\ LogInitWith(FALSE)

SpecHandle == InitHandle /\ [][HandleNext]_vars

-----------------------------------------------------------------------------
(* The identifiers a caller can hand to the builder, one call per place an
   identifier is rendered *)

\* 'x AS y'
ColAlias == <<"x", " ", "AS", " ", "y">>

ColWildcard == <<"*">>

\* 's.u', a schema-qualified table
TblQualified == <<"s", ".", "u">>

IdentifierInputs == {ColId, ColQualified, ColAggregate, ColAlias, ColWildcard}

ColumnInputs == {ColName, ColQualified}

QSelect ==
    /\ \E c \in IdentifierInputs : b' = select(b, <<c>>)
    /\ Chained("select")
    /\ UNCHANGED scope

QJoin ==
    /\ \E c \in ColumnInputs : b' = leftJoin(b, <<"o">>, c, "=", <<"o", ".", "u">>)
    /\ Chained("leftJoin")
    /\ UNCHANGED scope

QWhere ==
    /\ \E c \in ColumnInputs : b' = where(b, <<Entry(c, VScalar("v"))>>)
    /\ Chained("where")
    /\ UNCHANGED scope

QGroupBy ==
    /\ \E c \in ColumnInputs : b' = groupBy(b, <<c>>)
    /\ Chained("groupBy")
    /\ UNCHANGED scope

QOrderBy ==
    /\ \E c \in ColumnInputs : b' = orderBy(b, c, "DESC")
    /\ Chained("orderBy")
    /\ UNCHANGED scope

QFrom ==
    /\ \E sub \in FromInputs : b' = from(b, sub)
    /\ Chained("from")
    /\ UNCHANGED scope

QInsert ==
    /\ b' = insert(b, [kind |-> "object",
                       rows |-> <<<<Field(ColId, "1"), Field(ColName, "A")>>>>])
    /\ Chained("insert")
    /\ UNCHANGED scope

QUpdate ==
    /\ b' = update(b, [kind |-> "object", rows |-> <<<<Field(ColName, "B")>>>>])
    /\ Chained("update")
    /\ UNCHANGED scope

QDelete ==
    /\ b' = delete(b)
    /\ Chained("delete")
    /\ UNCHANGED scope

QOnConflict ==
    /\ b' = doUpdate(b, <<ColId>>, <<Field(ColName, "A2")>>)
    /\ Chained("doUpdate")
    /\ UNCHANGED scope

QReturning ==
    /\ \E c \in IdentifierInputs : b' = returning(b, <<c, ColName>>)
    /\ Chained("returning")
    /\ UNCHANGED scope

QuoteNext ==
    \/ QSelect
    \/ QJoin
    \/ QWhere
    \/ QGroupBy
    \/ QOrderBy
    \/ QFrom
    \/ QInsert
    \/ QUpdate
    \/ QDelete
    \/ QOnConflict
    \/ QReturning
    \/ TToSQL

-----------------------------------------------------------------------------
(* Claims about identifier quoting *)

\* `*`, and a string containing `(` or a space
EmittedUnquoted(id) == id = <<"*">> \/ Includes(id, "(") \/ Includes(id, " ")

\* a.b as "a"."b": a quote on each side, and on each side of every dot
RECURSIVE QuotedAtDots(_)
QuotedAtDots(id) ==
    IF Len(id) = 0 THEN <<>>
    ELSE (IF id[1] = "." THEN <<"\"", ".", "\"">> ELSE <<id[1]>>)
             \o QuotedAtDots(Tail(id))

ClaimedIdentifier(id) ==
    IF EmittedUnquoted(id) THEN id ELSE <<"\"">> \o QuotedAtDots(id) \o <<"\"">>

SeqRange(s) == {s[i] : i \in 1..Len(s)}

FieldKeys(fields) == {fields[i].k : i \in 1..Len(fields)}

JoinIdentifiers(q) ==
    UNION {{q.joins[i].table, q.joins[i].col1, q.joins[i].col2} : i \in 1..Len(q.joins)}

WhereIdentifiers(q) == {q.where[i].column : i \in 1..Len(q.where)}

ReturningIdentifiers(q) == IF q.returning.t = "cols" THEN SeqRange(q.returning.cols) ELSE {}

ConflictIdentifiers(q) ==
    UNION {SeqRange(q.onConflict[i].columns) \cup FieldKeys(q.onConflict[i].updateData)
               : i \in 1..Len(q.onConflict)}

\* the identifiers of the statement q renders: projection, FROM, JOIN ... ON,
\* WHERE, GROUP BY, ORDER BY, SET, the INSERT column list, ON CONFLICT, RETURNING
IdentifiersOf(q) ==
    CASE q.operation = "SELECT" ->
            SeqRange(q.select)
                \cup (IF Len(q.fromSubquery) > 0 THEN {AliasOf(q.fromSubquery[1])}
                      ELSE {q.table})
                \cup JoinIdentifiers(q) \cup WhereIdentifiers(q)
                \cup SeqRange(q.groupBy)
                \cup {q.orderBy[i].column : i \in 1..Len(q.orderBy)}
      [] q.operation = "INSERT" ->
            {q.table} \cup FieldKeys(q.data.rows[1]) \cup ConflictIdentifiers(q)
                \cup ReturningIdentifiers(q)
      [] q.operation = "UPDATE" ->
            {q.table} \cup FieldKeys(q.data.rows[1]) \cup WhereIdentifiers(q)
                \cup ReturningIdentifiers(q)
      [] q.operation = "DELETE" ->
            {q.table} \cup WhereIdentifiers(q) \cup ReturningIdentifiers(q)

IsQuoteMark(sql, p) == p \in 1..Len(sql) /\ sql[p] = "\""

\* the text appears in the statement, with no quote around it when it is one
\* of the texts emitted unquoted
AppearsAs(sql, id) ==
    \E p \in 0..(Len(sql) - Len(ClaimedIdentifier(id))) :
        /\ \A i \in 1..Len(ClaimedIdentifier(id)) : sql[p + i] = ClaimedIdentifier(id)[i]
        /\ EmittedUnquoted(id)
               => ~IsQuoteMark(sql, p) /\ ~IsQuoteMark(sql, p + Len(id) + 1)

\* the letters of the names of the tables, columns and aliases of the inputs
PlainNames == {"u", "i", "n", "o", "s", "r", "p", "b"}

\* the piece at p is part of a name with a quote right before and right after it
InQuotes(sql, p) ==
    \E l \in 1..(p - 1), r \in (p + 1)..Len(sql) :
        /\ sql[l] = "\""
        /\ sql[r] = "\""
        /\ \A k \in (l + 1)..(r - 1) : sql[k] \in PlainNames

\* C24: in every rendered statement every table and column identifier that is
\* neither an aggregate nor a wildcard appears double-quoted, each part of a
\* dotted reference quoted on its own, while `*` and a string containing `(`
\* or a space are emitted as they are.
C24_IdentifierQuoting ==
    (ret.kind = "toSQL" /\ ret.ok) =>
        /\ \A id \in IdentifiersOf(b) : AppearsAs(ret.sql, id)
        /\ \A p \in 1..Len(ret.sql) :
               ret.sql[p] \in PlainNames => InQuotes(ret.sql, p)

\* a SELECT with an aggregate in the projection, a join on qualified columns
\* and a predicate on a qualified column was rendered
C24_Witness ==
    /\ ret.kind = "toSQL"
    /\ ret.ok
    /\ b.select = <<ColAggregate>>
    /\ Len(b.joins) = 1
    /\ \E i \in 1..Len(b.where) : b.where[i].column = ColQualified
    /\ HasRun(ret.sql, <<"\"", "u", "\"", ".", "\"", "i", "\"">>)
    /\ HasRun(ret.sql, <<" ">> \o ColAggregate \o <<" ">>)

-----------------------------------------------------------------------------
(* The schema and the DDL renderer *)

\* a type of a column: a constructor (Number, String, Boolean, Date, Object)
\* or an instance of JsonType, UuidType, EnumType, ArrayType
TypeOf(t) == [t |-> t, values |-> <<>>, item |-> ""]

EnumOf(values) == [t |-> "Enum", values |-> values, item |-> ""]

ArrayOf(item) == [t |-> "Array", values |-> <<>>, item |-> item]

NoDefault == [t |-> "undefined", v |-> <<>>, n |-> 0, f |-> FALSE]

StringDefault(v) == [t |-> "string", v |-> v, n |-> 0, f |-> FALSE]

NumberDefault(n) == [t |-> "number", v |-> <<>>, n |-> n, f |-> FALSE]

BooleanDefault(f) == [t |-> "boolean", v |-> <<>>, n |-> 0, f |-> f]

\* a Date, held as the text toISOString() gives for it
DateDefault(iso) == [t |-> "date", v |-> iso, n |-> 0, f |-> FALSE]

NullDefault == [t |-> "null", v |-> <<>>, n |-> 0, f |-> FALSE]

\* a column given as a bare type: Number, json(), enumType('a', 'b')
Bare(type) ==
    [complex |-> FALSE, type |-> type, nullable |-> FALSE, primaryKey |-> FALSE,
     default |-> NoDefault]

\* a column given as { type, nullable, primaryKey, default }
Definition(type, nullable, primaryKey, default) ==
    [complex |-> TRUE, type |-> type, nullable |-> nullable,
     primaryKey |-> primaryKey, default |-> default]

Column(name, colSchema) == [name |-> name, colSchema |-> colSchema]

Table(name, columns) == [name |-> name, columns |-> columns]

\* Database._quote
DbQuote(identifier) ==
    IF Len(identifier) > 0 /\ identifier[1] = "\"" THEN identifier
    ELSE QuotePart(identifier)

\* defaultValue.replace(/'/g, "''")
RECURSIVE ReplaceQuotes(_)
ReplaceQuotes(s) ==
    IF Len(s) = 0 THEN <<>>
    ELSE (IF s[1] = "'" THEN <<"'", "'">> ELSE <<s[1]>>) \o ReplaceQuotes(Tail(s))

\* the SQL type of a column, or the error thrown for it
TypeSQL(type) ==
    CASE type.t = "Number"  -> Ok(<<"INTEGER">>, <<>>)
      [] type.t = "String"  -> Ok(<<"TEXT">>, <<>>)
      [] type.t = "Boolean" -> Ok(<<"BOOLEAN">>, <<>>)
      [] type.t = "Date"    -> Ok(<<"TIMESTAMP">>, <<>>)
      [] type.t = "Json"    -> Ok(<<"JSONB">>, <<>>)
      [] type.t = "Uuid"    -> Ok(<<"UUID">>, <<>>)
      [] type.t = "Enum"    -> Ok(<<"TEXT">>, <<>>)
      [] type.t = "Array"   ->
            CASE type.item = "Number"  -> Ok(<<"INTEGER[]">>, <<>>)
              [] type.item = "String"  -> Ok(<<"TEXT[]">>, <<>>)
              [] type.item = "Boolean" -> Ok(<<"BOOLEAN[]">>, <<>>)
              [] type.item = "Date"    -> Ok(<<"TIMESTAMP[]">>, <<>>)
              [] OTHER -> Throw("Unsupported array item type")
      [] OTHER -> Throw("Unsupported type")

\* the attributes are read from a definition object only
IsNullable(colSchema) == colSchema.complex /\ colSchema.nullable

IsPrimaryKey(colSchema) == colSchema.complex /\ colSchema.primaryKey

DefaultValue(colSchema) == IF colSchema.complex THEN colSchema.default ELSE NoDefault

ConstraintsSQL(colSchema) ==
    (IF IsPrimaryKey(colSchema) THEN <<" ", "PRIMARY KEY">> ELSE <<>>)
        \o (IF ~IsNullable(colSchema) /\ ~IsPrimaryKey(colSchema)
            THEN <<" ", "NOT NULL">> ELSE <<>>)

\* type.values.map((v) => `'${v}'`)
RECURSIVE Allowed(_)
Allowed(values) ==
    IF Len(values) = 0 THEN <<>>
    ELSE <<(<<"'">> \o values[1] \o <<"'">>)>> \o Allowed(Tail(values))

CheckSQL(quoted, type) ==
    IF type.t = "Enum" /\ Len(type.values) > 0
    THEN <<" ", "CHECK", " ", "(">> \o quoted \o <<" ", "IN", " ", "(">>
             \o Join(Allowed(type.values), <<",", " ">>) \o <<")", ")">>
    ELSE <<>>

DefaultSQL(d) ==
    CASE d.t = "string"  -> <<" ", "DEFAULT", " ", "'">> \o ReplaceQuotes(d.v) \o <<"'">>
      [] d.t = "number"  -> <<" ", "DEFAULT", " ">> \o NumStr(d.n)
      [] d.t = "boolean" -> <<" ", "DEFAULT", " ", IF d.f THEN "TRUE" ELSE "FALSE">>
      [] d.t = "date"    -> <<" ", "DEFAULT", " ", "'">> \o d.v \o <<"'">>
      [] OTHER -> <<>>

\* the text of one column after its quoted name
ColumnBody(quoted, colSchema) ==
    IF ~TypeSQL(colSchema.type).ok THEN TypeSQL(colSchema.type)
    ELSE Ok(quoted \o <<" ">> \o TypeSQL(colSchema.type).sql
                \o ConstraintsSQL(colSchema)
                \o CheckSQL(quoted, colSchema.type)
                \o DefaultSQL(DefaultValue(colSchema)),
            <<>>)

\* the columns of a table from the i-th on, rendered and joined, or the first
\* error thrown for one of them
RECURSIVE ColumnsSQL(_, _)
ColumnsSQL(columns, i) ==
    IF i > Len(columns) THEN Ok(<<>>, <<>>)
    ELSE IF ~ColumnBody(DbQuote(columns[i].name), columns[i].colSchema).ok
         THEN ColumnBody(DbQuote(columns[i].name), columns[i].colSchema)
    ELSE IF ~ColumnsSQL(columns, i + 1).ok THEN ColumnsSQL(columns, i + 1)
    ELSE Ok(ColumnBody(DbQuote(columns[i].name), columns[i].colSchema).sql
                \o (IF i < Len(columns) THEN <<",", "\n  ">> ELSE <<>>)
                \o ColumnsSQL(columns, i + 1).sql,
            <<>>)

\* the statement of createTables for one table of the schema
CreateTableSQL(table) ==
    IF ~ColumnsSQL(table.columns, 1).ok THEN ColumnsSQL(table.columns, 1)
    ELSE Ok(<<"CREATE TABLE IF NOT EXISTS", " ">> \o DbQuote(table.name)
                \o <<" ", "(", "\n  ">> \o ColumnsSQL(table.columns, 1).sql
                \o <<"\n", ")", ";">>,
            <<>>)

-----------------------------------------------------------------------------
(* The schemas a handle is created with *)

\* "it's"
TextWithQuote == <<"i", "t", "'", "s">>

TextPlain == <<"o", "k">>

ColumnSchemaInputs ==
    { Bare(TypeOf("Number")),
      Bare(TypeOf("Json")),
      Bare(TypeOf("Uuid")),
      Bare(EnumOf(<<TextPlain, <<"n", "o">> >>)),
      Bare(EnumOf(<<TextWithQuote>>)),
      Bare(ArrayOf("String")),
      Bare(ArrayOf("Json")),
      Definition(TypeOf("Number"), FALSE, TRUE, NoDefault),
      Definition(TypeOf("Number"), TRUE, TRUE, NumberDefault(7)),
      Definition(TypeOf("String"), TRUE, FALSE, StringDefault(TextWithQuote)),
      Definition(TypeOf("String"), FALSE, FALSE, StringDefault(TextPlain)),
      Definition(TypeOf("Boolean"), FALSE, FALSE, BooleanDefault(FALSE)),
      Definition(TypeOf("Date"), TRUE, FALSE,
                 DateDefault(<<"2024-01-02T03:04:05.000Z">>)),
      Definition(TypeOf("String"), TRUE, FALSE, NullDefault),
      Definition(EnumOf(<<>>), FALSE, FALSE, NoDefault),
      Definition(EnumOf(<<TextPlain, TextWithQuote>>), TRUE, FALSE,
                 StringDefault(TextWithQuote)),
      Definition(TypeOf("Object"), FALSE, FALSE, NoDefault) }

SecondColumnInputs ==
    { Definition(TypeOf("String"), FALSE, FALSE, StringDefault(TextPlain)),
      Bare(EnumOf(<<TextPlain>>)) }

\* two tables, the first of two columns
SchemaInputs ==
    { << Table(<<"a">>, <<Column(ColId, c1), Column(ColName, c2)>>),
         Table(<<"b">>, <<Column(ColId, c3)>>) >>
        : c1 \in ColumnSchemaInputs, c2 \in SecondColumnInputs,
          c3 \in {Bare(TypeOf("Uuid")), Bare(TypeOf("Object"))} }

SchemaInit(s) ==
    /\ opts = NoOptions
    /\ scope = "Default"
    /\ chain = <<>>
    /\ sent = <<>>
    /\ schema = s

-----------------------------------------------------------------------------
(* createTables(): one statement per table, in the order of the schema *)

DdlSent(sql, ok) == [via |-> "createTables", sql |-> sql, ok |-> ok]

DdlFrame == UNCHANGED <<b, calls, opts, scope, chain, schema, txVars, migVars, logVars>>

\* the next table is rendered and the adapter takes its statement
CreateTable ==
    /\ ret.kind = "this"
    /\ Len(sent) < Len(schema)
    /\ CreateTableSQL(schema[Len(sent) + 1]).ok
    /\ sent' = Append(sent, DdlSent(CreateTableSQL(schema[Len(sent) + 1]).sql, TRUE))
    /\ ret' = IF Len(sent') = Len(schema)
              THEN [kind |-> "createTables"] @@ Ok(<<>>, <<>>)
              ELSE ret
    /\ DdlFrame

\* the adapter rejects the statement of the next table: the call rejects
CreateTableRejected ==
    /\ ret.kind = "this"
    /\ Len(sent) < Len(schema)
    /\ CreateTableSQL(schema[Len(sent) + 1]).ok
    /\ sent' = Append(sent, DdlSent(CreateTableSQL(schema[Len(sent) + 1]).sql, FALSE))
    /\ ret' = [kind |-> "createTables"] @@ Throw("E_driver")
    /\ DdlFrame

\* a column of the next table has no SQL type: the call throws
CreateTableThrows ==
    /\ ret.kind = "this"
    /\ Len(sent) < Len(schema)
    /\ ~CreateTableSQL(schema[Len(sent) + 1]).ok
    /\ ret' = [kind |-> "createTables"] @@ CreateTableSQL(schema[Len(sent) + 1])
    /\ UNCHANGED sent
    /\ DdlFrame

DdlNext == CreateTable \/ CreateTableRejected \/ CreateTableThrows

-----------------------------------------------------------------------------
(* Claims about the DDL renderer *)

\* every single quote of the text doubled
RECURSIVE Doubled(_)
Doubled(s) ==
    IF Len(s) = 0 THEN <<>>
    ELSE IF s[1] = "'" THEN <<"'", "'">> \o Doubled(Tail(s))
    ELSE <<s[1]>> \o Doubled(Tail(s))

ClaimedValue(v) == <<"'">> \o Doubled(v) \o <<"'">>

ClaimedAllowed(values) ==
    Join([i \in 1..Len(values) |-> ClaimedValue(values[i])], <<",", " ">>)

ClaimedQuoted(name) == <<"\"">> \o name \o <<"\"">>

ClaimedDefault(d) ==
    CASE d.t = "string" -> <<" ", "DEFAULT", " ">> \o ClaimedValue(d.v)
      [] d.t \in {"undefined", "null"} -> <<>>
      [] OTHER -> DefaultSQL(d)

\* quoted name, type, PRIMARY KEY if marked, NOT NULL exactly when neither
\* nullable nor primary key, the CHECK of an enum, DEFAULT
ClaimedColumn(c) ==
    ClaimedQuoted(c.name) \o <<" ">> \o TypeSQL(c.colSchema.type).sql
        \o (IF c.colSchema.complex /\ c.colSchema.primaryKey
            THEN <<" ", "PRIMARY KEY">> ELSE <<>>)
        \o (IF ~(c.colSchema.complex /\ c.colSchema.nullable)
               /\ ~(c.colSchema.complex /\ c.colSchema.primaryKey)
            THEN <<" ", "NOT NULL">> ELSE <<>>)
        \o (IF c.colSchema.type.t = "Enum" /\ Len(c.colSchema.type.values) > 0
            THEN <<" ", "CHECK", " ", "(">> \o ClaimedQuoted(c.name)
                     \o <<" ", "IN", " ", "(">>
                     \o ClaimedAllowed(c.colSchema.type.values) \o <<")", ")">>
            ELSE <<>>)
        \o (IF c.colSchema.complex THEN ClaimedDefault(c.colSchema.default) ELSE <<>>)

ClaimedCreateTable(t) ==
    <<"CREATE TABLE IF NOT EXISTS", " ">> \o ClaimedQuoted(t.name)
        \o <<" ", "(", "\n  ">>
        \o Join([i \in 1..Len(t.columns) |-> ClaimedColumn(t.columns[i])],
                <<",", "\n  ">>)
        \o <<"\n", ")", ";">>

\* C25: createTables emits, for the tables of the schema in order, one CREATE
\* TABLE IF NOT EXISTS statement each, every column rendered as quoted name,
\* type, PRIMARY KEY if marked, NOT NULL exactly when neither nullable nor
\* primary key, for an enum a CHECK listing the allowed values with their
\* single quotes doubled, then DEFAULT with a string default single-quoted
\* and its single quotes doubled.
C25_DdlColumnRendering ==
    /\ Len(sent) <= Len(schema)
    /\ \A k \in 1..Len(sent) :
           sent[k].via = "createTables" => sent[k].sql = ClaimedCreateTable(schema[k])
    /\ (ret.kind = "createTables" /\ ret.ok) => Len(sent) = Len(schema)

-----------------------------------------------------------------------------
(* Claims about a failing up() *)

\* the events of an up() that stopped at names[k]: the k-1 names before it ran
\* and were recorded, and of names[k] there is what `err` allows: nothing when
\* loading failed, the failed body, or the body and the failed INSERT
StoppedAt(c, names, k) ==
    /\ k \in 1..Len(names)
    /\ Len(c.events) >= 2 * (k - 1)
    /\ RanInOrder(SubSeq(c.events, 1, 2 * (k - 1)), SubSeq(names, 1, k - 1),
                  "up", "insert")
    /\ SubSeq(c.events, 2 * k - 1, Len(c.events)) \in
           { <<>>,
             <<Event("up", names[k], FALSE, c.err)>>,
             <<Event("up", names[k], TRUE, ""), Event("insert", names[k], FALSE, c.err)>> }
    /\ c.after = c.before \cup
           {[name |-> names[j],
             batch |-> (IF c.before = {} THEN 0 ELSE MaxBatch(c.before)) + 1] :
               j \in 1..(k - 1)}

\* C26: up() does not wrap its batch in a transaction: when loading the k-th
\* pending migration, its up(helper) or its tracking INSERT fails, the error
\* is propagated, neither the k-th nor a later pending migration has a
\* tracking row, no later up(helper) has run, and the rows of the k-1
\* migrations before it remain.
C26_PartialProgress ==
    \A i \in CallsOf("up") :
        (hist[i].out # "returned") =>
            /\ hist[i].out = "raised"
            /\ hist[i].err # ""
            /\ \E k \in 1..Len(getPending(hist[i].dir, hist[i].before)) :
                   StoppedAt(hist[i], getPending(hist[i].dir, hist[i].before), k)

\* an up() with two pending migrations failed at the second, in its body or
\* in its INSERT, and the row of the first is in the table
C26_Witness ==
    \E i \in CallsOf("up") :
        /\ hist[i].out = "raised"
        /\ Len(getPending(hist[i].dir, hist[i].before)) = 2
        /\ Len(hist[i].events) >= 3
        /\ hist[i].err \in {"E_body", "E_driver"}
        /\ Cardinality(hist[i].after \ hist[i].before) = 1
        /\ getPending(hist[i].dir, hist[i].before)[1] \in {r.name : r \in hist[i].after}

-----------------------------------------------------------------------------
(* Claims about the keys of a condition object *)

\* the predicates q2 has and q had not
AddedTo(q, q2) == SubSeq(q2.where, Len(q.where) + 1, Len(q2.where))

\* every key of the condition object is the column of a predicate added
EveryKeyAdds(q, q2, conditions) ==
    \A i \in 1..Len(conditions) :
        \E j \in 1..Len(AddedTo(q, q2)) : AddedTo(q, q2)[j].column = conditions[i].key

\* C27: each key of the object given to where()/orWhere() adds at least one
\* predicate to the WHERE clause, so an UPDATE or DELETE built with a
\* condition object that is not empty never renders without a WHERE clause.
C27_EveryKeyConstrains ==
    [][(Where \/ OrWhere) =>
          /\ \A c \in WhereInputs \cup OrWhereInputs :
                 (b' = where(b, c) \/ b' = orWhere(b, c)) => EveryKeyAdds(b, b', c)
          /\ (b'.operation \in {"UPDATE", "DELETE"} /\ ToSQL(b').ok)
                 => HasRun(ToSQL(b').sql, <<" ", "WHERE", " ">>)]_vars

-----------------------------------------------------------------------------
(* Claims about the client of a transaction *)

\* the calls on the pool-backed adapter, as opposed to the flattened calls on
\* a client-bound adapter
PoolBacked(S) == {c \in S : ~c.flat}

\* C28: every transaction() call on a pool-backed PostgresAdapter releases the
\* client it acquired exactly once before it settles, whether the callback
\* returned or raised or BEGIN, COMMIT or ROLLBACK failed, and a flattened
\* nested call neither acquires nor releases a client.
C28_ConnectionRelease ==
    (driver = "pg") =>
        /\ pool.released = Cardinality(PoolBacked(done))
        /\ pool.busy = Cardinality(PoolBacked({frames[i] : i \in 1..Len(frames)}))

\* a call whose ROLLBACK failed has settled, a nested call inside it has
\* settled too, and the one client is back in the pool
C28_Witness ==
    /\ driver = "pg"
    /\ pool = [busy |-> 0, released |-> 1]
    /\ \E c \in PoolBacked(done) :
           /\ c.err = "E_rollback"
           /\ \E d \in done : d.flat /\ d.root = c.id

\* calls that ended in each of the other ways have settled as well
C28_WitnessCommitFailed ==
    /\ driver = "pg"
    /\ pool.busy = 0
    /\ \E c \in PoolBacked(done) : c.err = "E_commit"
    /\ \E c \in PoolBacked(done) : c.err = "E_begin"
    /\ \E c \in PoolBacked(done) : c.out = "returned"

-----------------------------------------------------------------------------
(* Claims about two up() calls at a time *)

\* the events of the up() calls so far: of the settled ones and of the ones
\* in progress
UpRuns ==
    {<<"settled", i, hist[i].events>> : i \in CallsOf("up")}
        \cup {<<"running", p, proc[p].events>> : p \in {q \in DOMAIN proc : proc[q].op = "up"}}

HasEvent(run, e) == \E k \in 1..Len(run[3]) : run[3][k] = e

\* no down() has been called
OnlyUp ==
    /\ CallsOf("down") = {}
    /\ \A p \in DOMAIN proc : proc[p].op # "down"

NamesOfFiles == {StripExt(f) : f \in FileNames}

\* C29 as the spec states it: of two up() calls running at the same time, at
\* most one executes the up(helper) body of a pending migration.
C29_BodyRunByOne ==
    \A p, q \in DOMAIN proc :
        (p # q /\ proc[p].op = "up" /\ proc[q].op = "up") =>
            \A n \in NamesOfFiles :
                ~(/\ HasEvent(<<"running", p, proc[p].events>>, Event("up", n, TRUE, ""))
                  /\ HasEvent(<<"running", q, proc[q].events>>, Event("up", n, TRUE, "")))

\* C29 (two up() calls, amended): across every interleaving of two up()
\* calls on one migration directory and one tracking table, the tracking row
\* of a pending migration is inserted by at most one of the two calls; its
\* up(helper) body may be executed by both, as the runner takes no lock.
C29_RecordedByOne ==
    OnlyUp =>
        \A n \in NamesOfFiles :
            \A r1, r2 \in UpRuns :
                (/\ HasEvent(r1, Event("insert", n, TRUE, ""))
                 /\ HasEvent(r2, Event("insert", n, TRUE, ""))) => r1 = r2

\* both calls have executed the body of one migration; one has inserted its
\* row and the other has failed on the constraint
C29_Witness ==
    /\ OnlyUp
    /\ \E n \in NamesOfFiles :
        \E r1, r2 \in UpRuns :
            /\ r1 # r2
            /\ HasEvent(r1, Event("up", n, TRUE, ""))
            /\ HasEvent(r1, Event("insert", n, TRUE, ""))
            /\ HasEvent(r2, Event("up", n, TRUE, ""))
            /\ HasEvent(r2, Event("insert", n, FALSE, "E_unique"))

InitPolicy ==
    QueryInit(TblUsers) /\ HandleInitWith(NoOptions) /\ TxInitWith("dummy")
        /\ MigInitWith({1}) /\ LogInitWith(FALSE)

SpecPolicy == InitPolicy /\ [][PolicyNext]_vars

InitTerminal ==
    QueryInit(TblUsers) /\ HandleInitWith(NoOptions) /\ TxInitWith("dummy")
        /\ MigInitWith({1}) /\ LogInitWith(FALSE)

SpecTerminal == InitTerminal /\ [][TerminalNext]_vars

InitQuote ==
    \E t \in {TblUsers, TblQualified} :
        QueryInit(t) /\ HandleInitWith(NoOptions) /\ TxInitWith("dummy")
            /\ MigInitWith({1}) /\ LogInitWith(FALSE)

SpecQuote == InitQuote /\ [][QuoteNext]_vars

InitDdl ==
    \E s \in SchemaInputs :
        QueryInit(TblUsers) /\ SchemaInit(s) /\ TxInitWith("dummy")
            /\ MigInitWith({1}) /\ LogInitWith(FALSE)

SpecDdl == InitDdl /\ [][DdlNext]_vars

====
